---- MODULE Spec2Model ----
(***************************************************************************)
(* The CPU core of the PlayStation emulator (src/src/cpu/mod.rs) as a      *)
(* state machine: one step is one call of Cpu::run_next_instruction.       *)
(*                                                                         *)
(* A 32-bit word (Rust u32) is the pair <<high half, low half>> of two     *)
(* 16-bit halves, so that every operation keeps its 32-bit width.          *)
(***************************************************************************)
EXTENDS Integers, Sequences, FiniteSets, TLC

VARIABLES
    pc, next_pc, current_pc,    \* the program counter pair and the snapshot
    regs, out_regs,             \* the two register banks
    hi, lo,                     \* HI / LO
    icache,                     \* the instruction cache (lines that differ from ICacheLine_new)
    sr, cause, epc,             \* cop0 r12, r13, r14
    load,                       \* the pending load <<register, value>>
    branch, delay_slot,         \* the branch / delay-slot flags
    tk,                         \* TimeKeeper: [now, last]
    mem, cc,                    \* Interconnect: words touched so far, cache control
    fatal,                      \* the host has aborted (panic!)
    trace,                      \* hooks and bus accesses of the last step, in order
    last, prev,                 \* what the last step, and the one before it, did
    calls,                      \* the calls of tick and sync made from outside a step
    steps                       \* number of steps taken

vars == <<pc, next_pc, current_pc, regs, out_regs, hi, lo, icache, sr, cause, epc,
          load, branch, delay_slot, tk, mem, cc, fatal, trace, last, prev, calls, steps>>

(* Number of steps a run takes. *)
MaxSteps == 4

(* Number of steps of a run that starts from chosen operands. *)
MaxArithSteps == 2

(* Number of steps of a run over the words no handler is written for. *)
MaxTrapSteps == 2

(* Number of steps of a run that stores, loads back and reads the register. *)
MaxTripSteps == 3

----------------------------------------------------------------------------
(* u32 arithmetic on <<high, low>> pairs *)

wrapping_add(a, b) ==
    LET l == a[2] + b[2]
    IN  <<(a[1] + b[1] + (l \div 65536)) % 65536, l % 65536>>

Not32(a) == <<65535 - a[1], 65535 - a[2]>>

wrapping_sub(a, b) == wrapping_add(wrapping_add(a, Not32(b)), <<0, 1>>)

(* (a as i32) < 0 *)
IsNeg(a) == a[1] >= 32768

LtU(a, b) == a[1] < b[1] \/ (a[1] = b[1] /\ a[2] < b[2])

LtS(a, b) == IF IsNeg(a) # IsNeg(b) THEN IsNeg(a) ELSE LtU(a, b)

Pow2(n) == 2 ^ n

(* a << n and a >> n for n in 0..31 *)
Shl(a, n) ==
    IF n >= 16
    THEN <<(a[2] * Pow2(n - 16)) % 65536, 0>>
    ELSE <<((a[1] * Pow2(n)) % 65536) + ((a[2] * Pow2(n)) \div 65536),
           (a[2] * Pow2(n)) % 65536>>

Shr(a, n) ==
    IF n >= 16
    THEN <<0, a[1] \div Pow2(n - 16)>>
    ELSE <<a[1] \div Pow2(n),
           (a[2] \div Pow2(n)) + (a[1] % Pow2(n)) * Pow2(16 - n)>>

(* (a as i32) >> n *)
Sar(a, n) == IF IsNeg(a) THEN Not32(Shr(Not32(a), n)) ELSE Shr(a, n)

RECURSIVE And16(_, _, _)
And16(x, y, n) ==
    IF n = 0 THEN 0
    ELSE (IF x % 2 = 1 /\ y % 2 = 1 THEN 1 ELSE 0) + 2 * And16(x \div 2, y \div 2, n - 1)

RECURSIVE Or16(_, _, _)
Or16(x, y, n) ==
    IF n = 0 THEN 0
    ELSE (IF x % 2 = 1 \/ y % 2 = 1 THEN 1 ELSE 0) + 2 * Or16(x \div 2, y \div 2, n - 1)

RECURSIVE Xor16(_, _, _)
Xor16(x, y, n) ==
    IF n = 0 THEN 0
    ELSE (IF x % 2 # y % 2 THEN 1 ELSE 0) + 2 * Xor16(x \div 2, y \div 2, n - 1)

And32(a, b) == <<And16(a[1], b[1], 16), And16(a[2], b[2], 16)>>
Or32(a, b)  == <<Or16(a[1], b[1], 16), Or16(a[2], b[2], 16)>>
Xor32(a, b) == <<Xor16(a[1], b[1], 16), Xor16(a[2], b[2], 16)>>

(* checked_add of unsigned words: None on a carry out of bit 31 *)
checked_add_carry(a, b) == <<a[1] + b[1] + ((a[2] + b[2]) \div 65536) < 65536, wrapping_add(a, b)>>

(* i32::checked_add / checked_sub: <<TRUE, v>> for Some(v), <<FALSE, _>> for None *)
checked_add(a, b) ==
    LET v == wrapping_add(a, b)
    IN  <<~(IsNeg(a) = IsNeg(b) /\ IsNeg(v) # IsNeg(a)), v>>

checked_sub(a, b) ==
    LET v == wrapping_sub(a, b)
    IN  <<~(IsNeg(a) # IsNeg(b) /\ IsNeg(v) # IsNeg(a)), v>>

----------------------------------------------------------------------------
(* Instruction: the fields of a 32-bit instruction word *)

function(i)    == i[1] \div 1024
subfunction(i) == i[2] % 64
cop_opcode(i)  == (i[1] \div 32) % 32
s(i)           == (i[1] \div 32) % 32
t(i)           == i[1] % 32
d(i)           == i[2] \div 2048
imm(i)         == <<0, i[2]>>
imm_se(i)      == <<IF i[2] >= 32768 THEN 65535 ELSE 0, i[2]>>
shift(i)       == (i[2] \div 64) % 32
imm_jump(i)    == <<i[1] % 1024, i[2]>>

(* Exception codes, as stored in CAUSE *)
LoadAddressError   == 4
StoreAddressError  == 5
SysCall            == 8
Break              == 9
IllegalInstruction == 10
CoprocessorError   == 11
Overflow           == 12

----------------------------------------------------------------------------
(* StatusRegister *)

cache_isolated(st) == (st[1] % 2) = 1

(* exception_handler without the BEV test: the RAM vector whatever SR says *)
exception_handler_ram(st) == <<32768, 128>>

exception_handler(st) ==
    IF (st[1] \div 64) % 2 = 1 THEN <<49088, 384>> ELSE <<32768, 128>>

(* enter_exception without the `& 0x3f`: the oldest entry of the stack is  *)
(* shifted into bits 7 and 6 instead of being dropped                     *)
enter_exception_unmasked(st) ==
    <<st[1], Or16(st[2] - (st[2] % 64), (st[2] % 64) * 4, 16)>>

(* enter_exception that rotates: the oldest entry of the stack comes back  *)
(* in at bits [1:0]                                                        *)
enter_exception_rotating(st) ==
    <<st[1], (st[2] - (st[2] % 64)) + (((st[2] % 64) * 4) % 64) + ((st[2] % 64) \div 16)>>

enter_exception(st) ==
    LET mode == st[2] % 64
    IN  <<st[1], (st[2] - mode) + ((mode * 4) % 64)>>

return_from_exception(st) ==
    LET mode == st[2] % 64
    IN  <<st[1], (st[2] - mode) + (mode \div 4)>>

----------------------------------------------------------------------------
(* ICacheLine *)

TrapWord == <<11, 44301>>

(* a line that starts invalid: bit 4 of tag_valid set *)
ICacheLine_new_invalid ==
    [tag_valid |-> <<0, 16>>, line |-> <<TrapWord, TrapWord, TrapWord, TrapWord>>]

ICacheLine_new == [tag_valid |-> <<0, 0>>, line |-> <<TrapWord, TrapWord, TrapWord, TrapWord>>]

tag(ln)         == <<ln.tag_valid[1], ln.tag_valid[2] - (ln.tag_valid[2] % 4096)>>
valid_index(ln) == (ln.tag_valid[2] \div 4) % 8

(* set_tag_valid that keeps the tag only: pc & 0xfffff000 *)
set_tag_valid_line(ln, p) == [ln EXCEPT !.tag_valid = <<p[1], p[2] - (p[2] % 4096)>>]

set_tag_valid(ln, p) ==
    [ln EXCEPT !.tag_valid = <<p[1], (p[2] - (p[2] % 4096)) + ((p[2] % 16) - (p[2] % 4))>>]

(* invalidate that clears tag_valid instead of setting bit 4 *)
invalidate_clear(ln) == [ln EXCEPT !.tag_valid = <<0, 0>>]

invalidate(ln) ==
    [ln EXCEPT !.tag_valid =
        <<@[1], @[2] + (IF (@[2] \div 16) % 2 = 0 THEN 16 ELSE 0)>>]

instruction(ln, index) == ln.line[index + 1]

set_instruction(ln, index, ins) == [ln EXCEPT !.line[index + 1] = ins]

(* self.icache[line]: a line never touched is still as ICacheLine::new() left it *)
icache_line(c, n) == IF n \in DOMAIN c.icache THEN c.icache[n] ELSE ICacheLine_new

icache_put(c, n, ln) ==
    [c EXCEPT !.icache = [k \in (DOMAIN c.icache) \cup {n} |-> IF k = n THEN ln ELSE c.icache[k]]]

----------------------------------------------------------------------------
(* TimeKeeper *)

TimeKeeper_new == [now |-> 0, last |-> 0]

(* tick that counts calls, not cycles *)
tick_calls(c, cycles) == [c EXCEPT !.tk.now = @ + 1]

tick(c, cycles) == [c EXCEPT !.tk.now = @ + cycles]

(* TimeSheet::sync that hands out the delta and keeps the old date *)
TimeSheet_sync_stale(sheet, now) == [sheet |-> sheet, delta |-> now - sheet]

(* TimeSheet::sync subtracting the wrong way round *)
TimeSheet_sync_swapped(sheet, now) == [sheet |-> now, delta |-> sheet - now]

(* TimeSheet::sync: the sheet is the date of the last synchronization *)
TimeSheet_sync(sheet, now) == [sheet |-> now, delta |-> now - sheet]

(* TimeKeeper::sync for the one peripheral there is, Gpu: the TimeKeeper   *)
(* after the call and the value returned                                   *)
sync(k) ==
    LET r == TimeSheet_sync(k.last, k.now)
    IN  [tk |-> [k EXCEPT !.last = r.sheet], delta |-> r.delta]

----------------------------------------------------------------------------
(* Interconnect: a flat little-endian memory. A word nobody has read or     *)
(* written yet holds its initial contents: the data pattern of the tests,   *)
(* or, when the first access is an instruction fetch, a word of the program.*)

Log(c, e, a) == [c EXCEPT !.trace = Append(@, [ev |-> e, addr |-> a])]

Align4(a) == <<a[1], a[2] - (a[2] % 4)>>

ram_init(a) == IF (a[2] \div 4) % 2 = 0 THEN <<30292, 12816>> ELSE <<65244, 47768>>

mem_word(c, a) == IF a \in DOMAIN c.mem THEN c.mem[a] ELSE ram_init(a)

mem_put(c, a, w) ==
    [c EXCEPT !.mem = [k \in (DOMAIN c.mem) \cup {a} |-> IF k = a THEN w ELSE c.mem[k]]]

ByteOf(w, k) ==
    CASE k = 0 -> w[2] % 256
      [] k = 1 -> w[2] \div 256
      [] k = 2 -> w[1] % 256
      [] k = 3 -> w[1] \div 256

WithByte(w, k, b) ==
    CASE k = 0 -> <<w[1], (w[2] - (w[2] % 256)) + b>>
      [] k = 1 -> <<w[1], (w[2] % 256) + 256 * b>>
      [] k = 2 -> <<(w[1] - (w[1] % 256)) + b, w[2]>>
      [] k = 3 -> <<(w[1] % 256) + 256 * b, w[2]>>

mem_byte(c, a) == ByteOf(mem_word(c, Align4(a)), a[2] % 4)

(* Interconnect::load_instruction; ch is the program word found at an address *)
(* no access has touched yet *)
load_instruction(c, a, ch) ==
    LET w  == IF a \in DOMAIN c.mem THEN c.mem[a] ELSE ch[a]
    IN  [c |-> mem_put(Log(c, "load_instruction", a), a, w), v |-> w]

(* Interconnect::load::<T>, T of `width` bytes *)
inter_load(c, a, width) ==
    LET B(i) == mem_byte(c, wrapping_add(a, <<0, i>>))
        v    == CASE width = 1 -> <<0, B(0)>>
                  [] width = 2 -> <<0, B(0) + 256 * B(1)>>
                  [] width = 4 -> <<B(2) + 256 * B(3), B(0) + 256 * B(1)>>
        a0   == Align4(a)
        a1   == Align4(wrapping_add(a, <<0, width - 1>>))
        c1   == mem_put(Log(c, "load", a), a0, mem_word(c, a0))
    IN  [c |-> mem_put(c1, a1, mem_word(c1, a1)), v |-> v]

RECURSIVE store_bytes(_, _, _, _, _)
store_bytes(c, a, v, i, width) ==
    IF i = width THEN c
    ELSE LET ai == wrapping_add(a, <<0, i>>)
             w  == mem_word(c, Align4(ai))
         IN  store_bytes(mem_put(c, Align4(ai), WithByte(w, ai[2] % 4, ByteOf(v, i))),
                         a, v, i + 1, width)

(* Interconnect::store::<T> *)
(* a word store at an address that is not a multiple of 4 (SWL and SWR     *)
(* store to the effective address) is redirected to the word it lies in   *)
inter_store(c, a, v, width) ==
    store_bytes(Log(c, "store", a), IF width = 4 THEN Align4(a) ELSE a, v, 0, width)

icache_enabled(c) == c.cc.icache_enabled
tag_test_mode(c)  == c.cc.tag_test_mode

----------------------------------------------------------------------------
(* Cpu: the methods take the CPU c (a record of the variables' values, with *)
(* the Interconnect and the TimeKeeper it owns) and give the CPU they leave.*)
(* c.exc is the code of the exception the step has raised (0: none) and     *)
(* c.wrote the registers the instruction has passed to set_reg.             *)

(* reg reading the output bank, where a load retired in this step shows *)
reg_out(c, index) == c.out_regs[index]

reg(c, index) == c.regs[index]

(* set_reg without the line that makes sure R0 is always 0 *)
set_reg_any(c, index, val) ==
    [c EXCEPT !.out_regs = [@ EXCEPT ![index] = val],
              !.wrote    = @ \cup {index}]

set_reg(c, index, val) ==
    [c EXCEPT !.out_regs = [[@ EXCEPT ![index] = val] EXCEPT ![0] = <<0, 0>>],
              !.wrote    = @ \cup {index}]

(* load without the debugger's hook, as examine has it *)
cpu_load_examine(c, addr, width) == inter_load(c, addr, width)

(* Memory read *)
cpu_load(c, addr, width) == inter_load(Log(c, "memory_read", addr), addr, width)

panic(c) == [c EXCEPT !.fatal = TRUE]

(* Handle writes when the cache is isolated *)
cache_maintenance(c, addr, val, width) ==
    IF ~icache_enabled(c) THEN panic(c)
    ELSE IF width # 4 \/ val # <<0, 0>> THEN panic(c)
    ELSE LET n  == (addr[2] \div 16) % 256
             ln == icache_line(c, n)
             c1 == Log(c, "cache_maintenance", addr)
         IN  IF tag_test_mode(c)
             THEN icache_put(c1, n, invalidate(ln))
             ELSE icache_put(c1, n, set_instruction(ln, (addr[2] \div 4) % 4, val))

(* store without the test of the cache isolation bit: always to the bus *)
cpu_store_bus(c, addr, val, width) ==
    inter_store(Log(c, "memory_write", addr), addr, val, width)

(* Memory write *)
cpu_store(c, addr, val, width) ==
    LET c1 == Log(c, "memory_write", addr)
    IN  IF cache_isolated(c1.sr)
        THEN cache_maintenance(c1, addr, val, width)
        ELSE inter_store(c1, addr, val, width)

(* branch without a delay slot: the target goes to pc at once *)
do_branch_now(c, offset) ==
    [c EXCEPT !.pc      = wrapping_add(c.pc, Shl(offset, 2)),
              !.next_pc = wrapping_add(wrapping_add(c.pc, Shl(offset, 2)), <<0, 4>>),
              !.branch  = TRUE]

(* branch relative to the address after the branch itself, wherever the   *)
(* program counter has gone since                                         *)
do_branch_own(c, offset) ==
    [c EXCEPT !.next_pc = wrapping_add(wrapping_add(c.current_pc, <<0, 4>>), Shl(offset, 2)),
              !.branch  = TRUE]

(* Branch to immediate value `offset` *)
do_branch(c, offset) ==
    [c EXCEPT !.next_pc = wrapping_add(c.pc, Shl(offset, 2)),
              !.branch  = TRUE]

(* exception loading pc with the handler and leaving next_pc behind *)
exception_stale_next(c, code) ==
    [c EXCEPT !.sr    = enter_exception(c.sr),
              !.cause = IF c.delay_slot THEN <<32768, code * 4>> ELSE <<0, code * 4>>,
              !.epc   = IF c.delay_slot THEN wrapping_sub(c.current_pc, <<0, 4>>)
                                        ELSE c.current_pc,
              !.pc    = exception_handler(enter_exception(c.sr)),
              !.exc   = code]

(* exception that flushes what is in flight: the output bank goes back to  *)
(* the input bank and the pending load is dropped                          *)
exception_flushing(c, code) ==
    LET st  == enter_exception(c.sr)
        cs  == <<0, code * 4>>
        h   == exception_handler(st)
    IN  [c EXCEPT !.sr       = st,
                  !.cause    = IF c.delay_slot THEN <<cs[1] + 32768, cs[2]>> ELSE cs,
                  !.epc      = IF c.delay_slot THEN wrapping_sub(c.current_pc, <<0, 4>>)
                                               ELSE c.current_pc,
                  !.pc       = h,
                  !.next_pc  = wrapping_add(h, <<0, 4>>),
                  !.out_regs = c.regs,
                  !.load     = <<0, <<0, 0>>>>,
                  !.exc      = code]

(* Trigger an exception *)
exception(c, code) ==
    LET st  == enter_exception(c.sr)
        cs  == <<0, code * 4>>
        h   == exception_handler(st)
    IN  [c EXCEPT !.sr      = st,
                  !.cause   = IF c.delay_slot THEN <<cs[1] + 32768, cs[2]>> ELSE cs,
                  !.epc     = IF c.delay_slot THEN wrapping_sub(c.current_pc, <<0, 4>>)
                                              ELSE c.current_pc,
                  !.pc      = h,
                  !.next_pc = wrapping_add(h, <<0, 4>>),
                  !.exc     = code]

(* Force PC address (debugger) *)
force_pc(c, a) ==
    [c EXCEPT !.pc = a, !.next_pc = wrapping_add(a, <<0, 4>>), !.delay_slot = FALSE]

(* line.set_instruction(i, instruction) with the word r the Interconnect gave *)
fill(r, n, i) == icache_put(r.c, n, set_instruction(icache_line(r.c, n), i, r.v))

(* The refill loop of fetch_instruction: words i..3 of line n, from cpc on *)
(* (cpc += 4: the sum left after word 3 is not used)                       *)
RECURSIVE refill(_, _, _, _, _)
refill(c, n, i, cpc, ch) ==
    IF i >= 4 THEN c
    ELSE refill(fill(load_instruction(tick(c, 1), cpc, ch), n, i),
                n, i + 1, wrapping_add(cpc, <<0, 4>>), ch)

(* the refill marking the whole line valid, from word 0 on *)
validate_whole(c, n, p) ==
    icache_put(c, n, set_tag_valid(icache_line(c, n), <<p[1], p[2] - (p[2] % 16)>>))

(* line.set_tag_valid(pc), after the refill *)
validate(c, n, p) == icache_put(c, n, set_tag_valid(icache_line(c, n), p))

(* line.instruction(index): the cache is now valid for the instruction *)
cached(c, n, index) == [c |-> c, v |-> instruction(icache_line(c, n), index)]

(* fetch_instruction that keeps the word of an uncached fetch in the cache *)
fetch_instruction_keeping(c, ch) ==
    LET p     == c.current_pc
        kseg1 == (p[1] \div 8192) = 5
        tg    == <<p[1], p[2] - (p[2] % 4096)>>
        n     == (p[2] \div 16) % 256
        index == (p[2] \div 4) % 4
        ln    == icache_line(c, n)
    IN  IF ~kseg1 /\ icache_enabled(c)
        THEN cached(IF tag(ln) # tg \/ valid_index(ln) > index
                    THEN validate(refill(tick(c, 3), n, index, p, ch), n, p)
                    ELSE c,
                    n, index)
        ELSE cached(fill(load_instruction(tick(c, 4), p, ch), n, index), n, index)

(* Fetch the instruction at current_pc through the instruction cache *)
fetch_instruction(c, ch) ==
    LET p     == c.current_pc
        kseg1 == (p[1] \div 8192) = 5
        tg    == <<p[1], p[2] - (p[2] % 4096)>>
        n     == (p[2] \div 16) % 256
        index == (p[2] \div 4) % 4
        ln    == icache_line(c, n)
    IN  IF ~kseg1 /\ icache_enabled(c)
        THEN cached(IF tag(ln) # tg \/ valid_index(ln) > index
                    THEN validate(refill(tick(c, 3), n, index, p, ch), n, p)
                    ELSE c,
                    n, index)
        ELSE load_instruction(tick(c, 4), p, ch)

(* The addresses fetch_instruction reads from the Interconnect *)
fetch_addresses(c) ==
    LET p     == c.pc
        kseg1 == (p[1] \div 8192) = 5
        index == (p[2] \div 4) % 4
        ln    == icache_line(c, (p[2] \div 16) % 256)
    IN  IF p[2] % 4 # 0 THEN {}
        ELSE IF ~kseg1 /\ icache_enabled(c)
        THEN IF tag(ln) # <<p[1], p[2] - (p[2] % 4096)>> \/ valid_index(ln) > index
             THEN {wrapping_add(p, <<0, 4 * k>>) : k \in 0 .. (3 - index)}
             ELSE {}
        ELSE {p}

----------------------------------------------------------------------------
(* 64-bit products and 32-bit quotients *)

Digits(a) == <<a[2] % 256, a[2] \div 256, a[1] % 256, a[1] \div 256>>

(* digit k (base 256, k in 0..7) of the column sums of a * b, before carries *)
Column(a, b, k) ==
    LET da == Digits(a)
        db == Digits(b)
        term(i) == IF k - i >= 0 /\ k - i <= 3 THEN da[i + 1] * db[k - i + 1] ELSE 0
    IN  term(0) + term(1) + term(2) + term(3)

RECURSIVE Carry(_, _, _)
Carry(a, b, k) == IF k = 0 THEN 0 ELSE (Column(a, b, k - 1) + Carry(a, b, k - 1)) \div 256

MulDigit(a, b, k) == (Column(a, b, k) + Carry(a, b, k)) % 256

(* (a as u64) * (b as u64) as <<high word, low word>> *)
MulU64(a, b) ==
    LET D(k) == MulDigit(a, b, k)
    IN  << <<D(6) + 256 * D(7), D(4) + 256 * D(5)>>,
           <<D(2) + 256 * D(3), D(0) + 256 * D(1)>> >>

(* ((a as i32) as i64 * (b as i32) as i64) as u64 *)
MulS64(a, b) ==
    LET u  == MulU64(a, b)
        h1 == IF IsNeg(a) THEN wrapping_sub(u[1], b) ELSE u[1]
        h2 == IF IsNeg(b) THEN wrapping_sub(h1, a) ELSE h1
    IN  <<h2, u[2]>>

(* n / dv and n % dv (unsigned, dv # 0), bit by bit from the top: <<quotient, remainder>> *)
RECURSIVE DivStep(_, _, _, _, _, _)
(* restoring division of n by dv, the bits i down to low of n: q and r are *)
(* the quotient and the remainder of the bits above i                      *)
DivStep(n, dv, q, r, i, low) ==
    IF i < low THEN <<q, r>>
    ELSE LET bit == IF i >= 16 THEN (n[1] \div Pow2(i - 16)) % 2 ELSE (n[2] \div Pow2(i)) % 2
             top == r[1] >= 32768
             r1  == wrapping_add(Shl(r, 1), <<0, bit>>)
             ge  == top \/ ~LtU(r1, dv)
         IN  DivStep(n, dv,
                     IF ge THEN wrapping_add(Shl(q, 1), <<0, 1>>) ELSE Shl(q, 1),
                     IF ge THEN wrapping_sub(r1, dv) ELSE r1,
                     i - 1, low)

(* the next byte of the division: the bits i down to i - 7 of n, once qr,  *)
(* the result of the bytes above, is known                                 *)
DivByte(n, dv, qr, i) ==
    IF qr[1][1] >= 0 /\ qr[2][1] >= 0 THEN DivStep(n, dv, qr[1], qr[2], i, i - 7) ELSE qr

(* (n as u32) / (dv as u32) and %: <<quotient, remainder>> *)
DivU(n, dv) ==
    DivByte(n, dv, DivByte(n, dv, DivByte(n, dv, DivByte(n, dv, <<<<0, 0>>, <<0, 0>>>>, 31), 23), 15), 7)

Neg32(a) == wrapping_sub(<<0, 0>>, a)
Abs32(a) == IF IsNeg(a) THEN Neg32(a) ELSE a

(* (n as i32) / (dv as i32) and %, truncated toward zero: <<quotient, remainder>> *)
DivS(n, dv) ==
    LET qr == DivU(Abs32(n), Abs32(dv))
    IN  <<IF IsNeg(n) # IsNeg(dv) THEN Neg32(qr[1]) ELSE qr[1],
          IF IsNeg(n) THEN Neg32(qr[2]) ELSE qr[2]>>

----------------------------------------------------------------------------
(* The instructions *)

Bool32(b) == IF b THEN <<0, 1>> ELSE <<0, 0>>

(* op_illegal stopping the host, as the handlers of what is not written yet do *)
op_illegal_abort(c, ins) == panic(c)

(* Illegal instruction *)
op_illegal(c, ins) == exception(c, IllegalInstruction)

op_sll(c, ins) == set_reg(c, d(ins), Shl(reg(c, t(ins)), shift(ins)))
op_srl(c, ins) == set_reg(c, d(ins), Shr(reg(c, t(ins)), shift(ins)))
op_sra(c, ins) == set_reg(c, d(ins), Sar(reg(c, t(ins)), shift(ins)))

op_sllv(c, ins) == set_reg(c, d(ins), Shl(reg(c, t(ins)), reg(c, s(ins))[2] % 32))
op_srlv(c, ins) == set_reg(c, d(ins), Shr(reg(c, t(ins)), reg(c, s(ins))[2] % 32))
op_srav(c, ins) == set_reg(c, d(ins), Sar(reg(c, t(ins)), reg(c, s(ins))[2] % 32))

(* BGEZ, BLTZ, BGEZAL, BLTZAL *)
op_bxx(c, ins) ==
    LET i       == imm_se(ins)
        is_bgez == ins[1] % 2
        is_link == (ins[1] \div 16) % 2 # 0
        test    == IF IsNeg(reg(c, s(ins))) THEN 1 ELSE 0
    IN  IF test # is_bgez
        THEN do_branch(IF is_link THEN set_reg(c, 31, c.next_pc) ELSE c, i)
        ELSE c

(* JR that forgets to flag the jump *)
op_jr_unflagged(c, ins) == [c EXCEPT !.next_pc = reg(c, s(ins))]

op_jr(c, ins) == [c EXCEPT !.next_pc = reg(c, s(ins)), !.branch = TRUE]

(* JALR taking the target from the bank it has just written *)
op_jalr_linked(c, ins) ==
    LET c1 == set_reg(c, d(ins), c.next_pc)
    IN  [c1 EXCEPT !.next_pc = c1.out_regs[s(ins)], !.branch = TRUE]

op_jalr(c, ins) ==
    LET c1 == set_reg(c, d(ins), c.next_pc)
    IN  [c1 EXCEPT !.next_pc = reg(c1, s(ins)), !.branch = TRUE]

op_syscall(c, ins) == exception(c, SysCall)
op_break(c, ins)   == exception(c, Break)

op_mfhi(c, ins) == set_reg(c, d(ins), c.hi)
op_mthi(c, ins) == [c EXCEPT !.hi = reg(c, s(ins))]
op_mflo(c, ins) == set_reg(c, d(ins), c.lo)
op_mtlo(c, ins) == [c EXCEPT !.lo = reg(c, s(ins))]

op_mult(c, ins) ==
    LET v == MulS64(reg(c, s(ins)), reg(c, t(ins)))
    IN  [c EXCEPT !.hi = v[1], !.lo = v[2]]

op_multu(c, ins) ==
    LET v == MulU64(reg(c, s(ins)), reg(c, t(ins)))
    IN  [c EXCEPT !.hi = v[1], !.lo = v[2]]

(* DIV by the operators alone: n / d and n % d panic for d = 0 and for     *)
(* i32::MIN / -1                                                           *)
op_div_plain(c, ins) ==
    LET n  == reg(c, s(ins))
        dv == reg(c, t(ins))
    IN  IF dv = <<0, 0>> \/ (n = <<32768, 0>> /\ dv = <<65535, 65535>>)
        THEN panic(c)
        ELSE LET qr == DivS(n, dv) IN [c EXCEPT !.hi = qr[2], !.lo = qr[1]]

op_div(c, ins) ==
    LET n  == reg(c, s(ins))
        dv == reg(c, t(ins))
    IN  IF dv = <<0, 0>>
        THEN [c EXCEPT !.hi = n, !.lo = IF ~IsNeg(n) THEN <<65535, 65535>> ELSE <<0, 1>>]
        ELSE IF n = <<32768, 0>> /\ dv = <<65535, 65535>>
        THEN [c EXCEPT !.hi = <<0, 0>>, !.lo = <<32768, 0>>]
        ELSE LET qr == DivS(n, dv) IN [c EXCEPT !.hi = qr[2], !.lo = qr[1]]

op_divu(c, ins) ==
    LET n  == reg(c, s(ins))
        dv == reg(c, t(ins))
    IN  IF dv = <<0, 0>>
        THEN [c EXCEPT !.hi = n, !.lo = <<65535, 65535>>]
        ELSE LET qr == DivU(n, dv) IN [c EXCEPT !.hi = qr[2], !.lo = qr[1]]

(* Add and check for signed overflow *)
op_add(c, ins) ==
    LET r == checked_add(reg(c, s(ins)), reg(c, t(ins)))
    IN  IF r[1] THEN set_reg(c, d(ins), r[2]) ELSE exception(c, Overflow)

op_addu(c, ins) == set_reg(c, d(ins), wrapping_add(reg(c, s(ins)), reg(c, t(ins))))

(* Substract and check for signed overflow *)
op_sub(c, ins) ==
    LET r == checked_sub(reg(c, s(ins)), reg(c, t(ins)))
    IN  IF r[1] THEN set_reg(c, d(ins), r[2]) ELSE exception(c, Overflow)

op_subu(c, ins) == set_reg(c, d(ins), wrapping_sub(reg(c, s(ins)), reg(c, t(ins))))

op_and(c, ins) == set_reg(c, d(ins), And32(reg(c, s(ins)), reg(c, t(ins))))
op_or(c, ins)  == set_reg(c, d(ins), Or32(reg(c, s(ins)), reg(c, t(ins))))
op_xor(c, ins) == set_reg(c, d(ins), Xor32(reg(c, s(ins)), reg(c, t(ins))))
op_nor(c, ins) == set_reg(c, d(ins), Not32(Or32(reg(c, s(ins)), reg(c, t(ins)))))

op_slt(c, ins)  == set_reg(c, d(ins), Bool32(LtS(reg(c, s(ins)), reg(c, t(ins)))))
op_sltu(c, ins) == set_reg(c, d(ins), Bool32(LtU(reg(c, s(ins)), reg(c, t(ins)))))

(* Jump *)
op_j(c, ins) ==
    LET i == Shl(imm_jump(ins), 2)
    IN  [c EXCEPT !.next_pc = <<(c.pc[1] - (c.pc[1] % 4096)) + i[1], i[2]>>,
                  !.branch  = TRUE]

(* Jump And Link *)
op_jal(c, ins) == [op_j(set_reg(c, 31, c.next_pc), ins) EXCEPT !.branch = TRUE]

op_beq(c, ins) ==
    IF reg(c, s(ins)) = reg(c, t(ins)) THEN do_branch(c, imm_se(ins)) ELSE c

op_bne(c, ins) ==
    IF reg(c, s(ins)) # reg(c, t(ins)) THEN do_branch(c, imm_se(ins)) ELSE c

op_blez(c, ins) ==
    LET v == reg(c, s(ins))
    IN  IF IsNeg(v) \/ v = <<0, 0>> THEN do_branch(c, imm_se(ins)) ELSE c

op_bgtz(c, ins) ==
    LET v == reg(c, s(ins))
    IN  IF ~IsNeg(v) /\ v # <<0, 0>> THEN do_branch(c, imm_se(ins)) ELSE c

(* Add Immediate and check for signed overflow *)
op_addi(c, ins) ==
    LET r == checked_add(reg(c, s(ins)), imm_se(ins))
    IN  IF r[1] THEN set_reg(c, t(ins), r[2]) ELSE exception(c, Overflow)

op_addiu(c, ins) == set_reg(c, t(ins), wrapping_add(reg(c, s(ins)), imm_se(ins)))

op_slti(c, ins)  == set_reg(c, t(ins), Bool32(LtS(reg(c, s(ins)), imm_se(ins))))
op_sltiu(c, ins) == set_reg(c, t(ins), Bool32(LtU(reg(c, s(ins)), imm_se(ins))))

op_andi(c, ins) == set_reg(c, t(ins), And32(reg(c, s(ins)), imm(ins)))
op_ori(c, ins)  == set_reg(c, t(ins), Or32(reg(c, s(ins)), imm(ins)))
op_xori(c, ins) == set_reg(c, t(ins), Xor32(reg(c, s(ins)), imm(ins)))

op_lui(c, ins) == set_reg(c, t(ins), <<ins[2], 0>>)

(* Move From Coprocessor 0 *)
(* MFC0 that writes the register at once instead of staging a load *)
op_mfc0_now(c, ins) ==
    LET cop_r == d(ins)
    IN  CASE cop_r = 12 -> set_reg(c, t(ins), c.sr)
          [] cop_r = 13 -> set_reg(c, t(ins), c.cause)
          [] cop_r = 14 -> set_reg(c, t(ins), c.epc)
          [] OTHER      -> panic(c)

op_mfc0(c, ins) ==
    LET cop_r == d(ins)
    IN  CASE cop_r = 12 -> [c EXCEPT !.load = <<t(ins), c.sr>>]
          [] cop_r = 13 -> [c EXCEPT !.load = <<t(ins), c.cause>>]
          [] cop_r = 14 -> [c EXCEPT !.load = <<t(ins), c.epc>>]
          [] OTHER      -> panic(c)

(* MTC0 that ignores a write it does not handle *)
op_mtc0_lenient(c, ins) == IF d(ins) = 12 THEN [c EXCEPT !.sr = reg(c, t(ins))] ELSE c

(* Move To Coprocessor 0 *)
op_mtc0(c, ins) ==
    LET cop_r == d(ins)
        v     == reg(c, t(ins))
    IN  CASE cop_r \in {3, 5, 6, 7, 9, 11} -> IF v # <<0, 0>> THEN panic(c) ELSE c
          [] cop_r = 12                    -> [c EXCEPT !.sr = v]
          [] cop_r = 13                    -> IF v # <<0, 0>> THEN panic(c) ELSE c
          [] OTHER                         -> panic(c)

(* Return From Exception *)
op_rfe(c, ins) ==
    IF ins[2] % 64 # 16 THEN panic(c)
    ELSE [c EXCEPT !.sr = return_from_exception(c.sr)]

(* Coprocessor 0 opcode *)
op_cop0(c, ins) ==
    CASE cop_opcode(ins) = 0  -> op_mfc0(c, ins)
      [] cop_opcode(ins) = 4  -> op_mtc0(c, ins)
      [] cop_opcode(ins) = 16 -> op_rfe(c, ins)
      [] OTHER                -> panic(c)

op_cop1(c, ins) == exception(c, CoprocessorError)
op_cop2(c, ins) == panic(c)

(* cop3 taken for an opcode that does not exist rather than for a          *)
(* coprocessor that does not                                               *)
op_cop3_illegal(c, ins) == exception(c, IllegalInstruction)

op_cop3(c, ins) == exception(c, CoprocessorError)

SignExt8(v)  == IF v[2] >= 128 THEN <<65535, 65280 + v[2]>> ELSE v
SignExt16(v) == IF v[2] >= 32768 THEN <<65535, v[2]>> ELSE v

EffAddr(c, ins) == wrapping_add(reg(c, s(ins)), imm_se(ins))

(* self.load = (t, v), v made of the value r the load returned *)
pend_load(r, index, Conv(_)) == [r.c EXCEPT !.load = <<index, Conv(r.v)>>]

Same(v) == v

(* Load Byte (signed) *)
op_lb(c, ins) == pend_load(cpu_load(c, EffAddr(c, ins), 1), t(ins), SignExt8)

(* LH without the cast to i16: the halfword comes back zero-extended *)
op_lh_unsigned(c, ins) == pend_load(cpu_load(c, EffAddr(c, ins), 2), t(ins), Same)

(* Load Halfword (signed) *)
op_lh(c, ins) == pend_load(cpu_load(c, EffAddr(c, ins), 2), t(ins), SignExt16)

(* The word LWL makes of the register value cur_v and the aligned word *)
lwl_value(cur_v, aligned_word, k) ==
    CASE k = 0 -> <<(cur_v[1] % 256) + ((aligned_word[2] % 256) * 256), cur_v[2]>>
      [] k = 1 -> <<aligned_word[2], cur_v[2]>>
      [] k = 2 -> Or32(<<0, cur_v[2] % 256>>, Shl(aligned_word, 8))
      [] k = 3 -> aligned_word

pend_lwl(r, index, cur_v, k) == [r.c EXCEPT !.load = <<index, lwl_value(cur_v, r.v, k)>>]

(* LWL blending with the input bank, which a load still in flight has not *)
(* reached                                                                *)
op_lwl_regs(c, ins) ==
    LET addr == EffAddr(c, ins)
    IN  pend_lwl(cpu_load(c, Align4(addr), 4), t(ins), c.regs[t(ins)], addr[2] % 4)

(* Load Word Left *)
op_lwl(c, ins) ==
    LET addr == EffAddr(c, ins)
    IN  pend_lwl(cpu_load(c, Align4(addr), 4), t(ins), c.out_regs[t(ins)], addr[2] % 4)

(* Load Word *)
op_lw(c, ins) ==
    LET addr == EffAddr(c, ins)
    IN  IF addr[2] % 4 = 0
        THEN pend_load(cpu_load(c, addr, 4), t(ins), Same)
        ELSE exception(c, LoadAddressError)

(* Load Byte Unsigned *)
op_lbu(c, ins) == pend_load(cpu_load(c, EffAddr(c, ins), 1), t(ins), Same)

(* Load Halfword Unsigned *)
op_lhu(c, ins) ==
    LET addr == EffAddr(c, ins)
    IN  IF addr[2] % 2 = 0
        THEN pend_load(cpu_load(c, addr, 2), t(ins), Same)
        ELSE exception(c, LoadAddressError)

(* LWR that takes the whole aligned word at every offset *)
lwr_value_whole(cur_v, aligned_word, k) == aligned_word

(* The word LWR makes of the register value cur_v and the aligned word *)
lwr_value(cur_v, aligned_word, k) ==
    CASE k = 0 -> aligned_word
      [] k = 1 -> Or32(<<cur_v[1] - (cur_v[1] % 256), 0>>, Shr(aligned_word, 8))
      [] k = 2 -> <<cur_v[1], aligned_word[1]>>
      [] k = 3 -> Or32(<<cur_v[1], cur_v[2] - (cur_v[2] % 256)>>, Shr(aligned_word, 24))

pend_lwr(r, index, cur_v, k) == [r.c EXCEPT !.load = <<index, lwr_value(cur_v, r.v, k)>>]

(* Load Word Right *)
op_lwr(c, ins) ==
    LET addr == EffAddr(c, ins)
    IN  pend_lwr(cpu_load(c, Align4(addr), 4), t(ins), c.out_regs[t(ins)], addr[2] % 4)

(* Store Byte *)
op_sb(c, ins) == cpu_store(c, EffAddr(c, ins), <<0, reg(c, t(ins))[2] % 256>>, 1)

(* Store Halfword *)
op_sh(c, ins) ==
    LET addr == EffAddr(c, ins)
    IN  IF addr[2] % 2 = 0
        THEN cpu_store(c, addr, <<0, reg(c, t(ins))[2]>>, 2)
        ELSE exception(c, StoreAddressError)

(* The word SWL makes of the memory word cur and the register value v *)
swl_value(cur, v, k) ==
    CASE k = 0 -> Or32(<<cur[1], cur[2] - (cur[2] % 256)>>, Shr(v, 24))
      [] k = 1 -> <<cur[1], v[1]>>
      [] k = 2 -> Or32(<<cur[1] - (cur[1] % 256), 0>>, Shr(v, 8))
      [] k = 3 -> v

store_swl(r, addr, v) == cpu_store(r.c, addr, swl_value(r.v, v, addr[2] % 4), 4)

(* SWL without the merge: the register goes out whole *)
op_swl_whole(c, ins) ==
    cpu_store(cpu_load(c, Align4(EffAddr(c, ins)), 4).c, EffAddr(c, ins), reg(c, t(ins)), 4)

(* Store Word Left *)
op_swl(c, ins) ==
    LET addr == EffAddr(c, ins)
    IN  store_swl(cpu_load(c, Align4(addr), 4), addr, reg(c, t(ins)))

(* SW without the test of the address: the store goes out whatever it is *)
op_sw_unchecked(c, ins) == cpu_store(c, EffAddr(c, ins), reg(c, t(ins)), 4)

(* Store Word *)
op_sw(c, ins) ==
    LET addr == EffAddr(c, ins)
    IN  IF addr[2] % 4 = 0
        THEN cpu_store(c, addr, reg(c, t(ins)), 4)
        ELSE exception(c, StoreAddressError)

(* The word SWR makes of the memory word cur and the register value v *)
swr_value(cur, v, k) ==
    CASE k = 0 -> v
      [] k = 1 -> Or32(<<0, cur[2] % 256>>, Shl(v, 8))
      [] k = 2 -> <<v[2], cur[2]>>
      [] k = 3 -> Or32(<<cur[1] % 256, cur[2]>>, Shl(v, 24))

store_swr(r, addr, v) == cpu_store(r.c, addr, swr_value(r.v, v, addr[2] % 4), 4)

(* Store Word Right *)
op_swr(c, ins) ==
    LET addr == EffAddr(c, ins)
    IN  store_swr(cpu_load(c, Align4(addr), 4), addr, reg(c, t(ins)))

op_lwc0(c, ins) == exception(c, CoprocessorError)
op_lwc1(c, ins) == exception(c, CoprocessorError)
op_lwc2(c, ins) == panic(c)
op_lwc3(c, ins) == exception(c, CoprocessorError)
op_swc0(c, ins) == exception(c, CoprocessorError)
op_swc1(c, ins) == exception(c, CoprocessorError)
op_swc2(c, ins) == panic(c)
op_swc3(c, ins) == exception(c, CoprocessorError)

(* The name of the handler decode_and_execute runs for an instruction word *)
decode(ins) ==
    LET f  == function(ins)
        sf == subfunction(ins)
    IN  CASE f = 0 ->
             (CASE sf = 0  -> "op_sll"     [] sf = 2  -> "op_srl"   [] sf = 3  -> "op_sra"
                [] sf = 4  -> "op_sllv"    [] sf = 6  -> "op_srlv"  [] sf = 7  -> "op_srav"
                [] sf = 8  -> "op_jr"      [] sf = 9  -> "op_jalr"
                [] sf = 12 -> "op_syscall" [] sf = 13 -> "op_break"
                [] sf = 16 -> "op_mfhi"    [] sf = 17 -> "op_mthi"
                [] sf = 18 -> "op_mflo"    [] sf = 19 -> "op_mtlo"
                [] sf = 24 -> "op_mult"    [] sf = 25 -> "op_multu"
                [] sf = 26 -> "op_div"     [] sf = 27 -> "op_divu"
                [] sf = 32 -> "op_add"     [] sf = 33 -> "op_addu"
                [] sf = 34 -> "op_sub"     [] sf = 35 -> "op_subu"
                [] sf = 36 -> "op_and"     [] sf = 37 -> "op_or"
                [] sf = 38 -> "op_xor"     [] sf = 39 -> "op_nor"
                [] sf = 42 -> "op_slt"     [] sf = 43 -> "op_sltu"
                [] OTHER   -> "op_illegal")
          [] f = 1  -> "op_bxx"   [] f = 2  -> "op_j"     [] f = 3  -> "op_jal"
          [] f = 4  -> "op_beq"   [] f = 5  -> "op_bne"   [] f = 6  -> "op_blez"
          [] f = 7  -> "op_bgtz"  [] f = 8  -> "op_addi"  [] f = 9  -> "op_addiu"
          [] f = 10 -> "op_slti"  [] f = 11 -> "op_sltiu" [] f = 12 -> "op_andi"
          [] f = 13 -> "op_ori"   [] f = 14 -> "op_xori"  [] f = 15 -> "op_lui"
          [] f = 16 -> "op_cop0"  [] f = 17 -> "op_cop1"  [] f = 18 -> "op_cop2"
          [] f = 19 -> "op_cop3"
          [] f = 32 -> "op_lb"    [] f = 33 -> "op_lh"    [] f = 34 -> "op_lwl"
          [] f = 35 -> "op_lw"    [] f = 36 -> "op_lbu"   [] f = 37 -> "op_lhu"
          [] f = 38 -> "op_lwr"
          [] f = 40 -> "op_sb"    [] f = 41 -> "op_sh"    [] f = 42 -> "op_swl"
          [] f = 43 -> "op_sw"    [] f = 46 -> "op_swr"
          [] f = 48 -> "op_lwc0"  [] f = 49 -> "op_lwc1"  [] f = 50 -> "op_lwc2"
          [] f = 51 -> "op_lwc3"
          [] f = 56 -> "op_swc0"  [] f = 57 -> "op_swc1"  [] f = 58 -> "op_swc2"
          [] f = 59 -> "op_swc3"
          [] OTHER  -> "op_illegal"

execute(c, ins, h) ==
    CASE h = "op_sll"   -> op_sll(c, ins)    [] h = "op_srl"   -> op_srl(c, ins)
      [] h = "op_sra"   -> op_sra(c, ins)    [] h = "op_sllv"  -> op_sllv(c, ins)
      [] h = "op_srlv"  -> op_srlv(c, ins)   [] h = "op_srav"  -> op_srav(c, ins)
      [] h = "op_jr"    -> op_jr(c, ins)     [] h = "op_jalr"  -> op_jalr(c, ins)
      [] h = "op_syscall" -> op_syscall(c, ins)
      [] h = "op_break" -> op_break(c, ins)
      [] h = "op_mfhi"  -> op_mfhi(c, ins)   [] h = "op_mthi"  -> op_mthi(c, ins)
      [] h = "op_mflo"  -> op_mflo(c, ins)   [] h = "op_mtlo"  -> op_mtlo(c, ins)
      [] h = "op_mult"  -> op_mult(c, ins)   [] h = "op_multu" -> op_multu(c, ins)
      [] h = "op_div"   -> op_div(c, ins)    [] h = "op_divu"  -> op_divu(c, ins)
      [] h = "op_add"   -> op_add(c, ins)    [] h = "op_addu"  -> op_addu(c, ins)
      [] h = "op_sub"   -> op_sub(c, ins)    [] h = "op_subu"  -> op_subu(c, ins)
      [] h = "op_and"   -> op_and(c, ins)    [] h = "op_or"    -> op_or(c, ins)
      [] h = "op_xor"   -> op_xor(c, ins)    [] h = "op_nor"   -> op_nor(c, ins)
      [] h = "op_slt"   -> op_slt(c, ins)    [] h = "op_sltu"  -> op_sltu(c, ins)
      [] h = "op_bxx"   -> op_bxx(c, ins)    [] h = "op_j"     -> op_j(c, ins)
      [] h = "op_jal"   -> op_jal(c, ins)    [] h = "op_beq"   -> op_beq(c, ins)
      [] h = "op_bne"   -> op_bne(c, ins)    [] h = "op_blez"  -> op_blez(c, ins)
      [] h = "op_bgtz"  -> op_bgtz(c, ins)   [] h = "op_addi"  -> op_addi(c, ins)
      [] h = "op_addiu" -> op_addiu(c, ins)  [] h = "op_slti"  -> op_slti(c, ins)
      [] h = "op_sltiu" -> op_sltiu(c, ins)  [] h = "op_andi"  -> op_andi(c, ins)
      [] h = "op_ori"   -> op_ori(c, ins)    [] h = "op_xori"  -> op_xori(c, ins)
      [] h = "op_lui"   -> op_lui(c, ins)    [] h = "op_cop0"  -> op_cop0(c, ins)
      [] h = "op_cop1"  -> op_cop1(c, ins)   [] h = "op_cop2"  -> op_cop2(c, ins)
      [] h = "op_cop3"  -> op_cop3(c, ins)
      [] h = "op_lb"    -> op_lb(c, ins)     [] h = "op_lh"    -> op_lh(c, ins)
      [] h = "op_lwl"   -> op_lwl(c, ins)    [] h = "op_lw"    -> op_lw(c, ins)
      [] h = "op_lbu"   -> op_lbu(c, ins)    [] h = "op_lhu"   -> op_lhu(c, ins)
      [] h = "op_lwr"   -> op_lwr(c, ins)
      [] h = "op_sb"    -> op_sb(c, ins)     [] h = "op_sh"    -> op_sh(c, ins)
      [] h = "op_swl"   -> op_swl(c, ins)    [] h = "op_sw"    -> op_sw(c, ins)
      [] h = "op_swr"   -> op_swr(c, ins)
      [] h = "op_lwc0"  -> op_lwc0(c, ins)   [] h = "op_lwc1"  -> op_lwc1(c, ins)
      [] h = "op_lwc2"  -> op_lwc2(c, ins)   [] h = "op_lwc3"  -> op_lwc3(c, ins)
      [] h = "op_swc0"  -> op_swc0(c, ins)   [] h = "op_swc1"  -> op_swc1(c, ins)
      [] h = "op_swc2"  -> op_swc2(c, ins)   [] h = "op_swc3"  -> op_swc3(c, ins)
      [] h = "op_illegal" -> op_illegal(c, ins)

(* Decode `instruction`'s opcode and run the function *)
decode_and_execute(c) == execute(tick(c, 1), c.ins, decode(c.ins))

----------------------------------------------------------------------------
(* One step *)

(* The CPU the variables describe, at the start of a step *)
Cpu ==
    [pc |-> pc, next_pc |-> next_pc, current_pc |-> current_pc,
     regs |-> regs, out_regs |-> out_regs, hi |-> hi, lo |-> lo,
     icache |-> icache, sr |-> sr, cause |-> cause, epc |-> epc,
     load |-> load, branch |-> branch, delay_slot |-> delay_slot,
     tk |-> tk, mem |-> mem, cc |-> cc, fatal |-> fatal,
     trace |-> << >>, exc |-> 0, wrote |-> {},
     ins |-> <<0, 0>>, h |-> "none", src |-> <<<<0, 0>>, <<0, 0>>>>]

(* let pc = self.pc; self.current_pc = pc; debugger.pc_change(self) *)
snapshot(c) == Log([c EXCEPT !.current_pc = c.pc], "pc_change", c.pc)

(* self.pc = self.next_pc; self.next_pc = self.pc.wrapping_add(4), f being  *)
(* the CPU and the word fetch_instruction gave                              *)
advance(f) ==
    [f.c EXCEPT !.pc      = f.c.next_pc,
                !.next_pc = wrapping_add(f.c.next_pc, <<0, 4>>),
                !.ins     = f.v,
                !.h       = decode(f.v)]

(* let (reg, val) = self.load; self.set_reg(reg, val); self.load = (0, 0) *)
retire(c) ==
    [set_reg(c, c.load[1], c.load[2]) EXCEPT !.load = <<0, <<0, 0>>>>, !.wrote = {}]

(* self.delay_slot = self.branch; self.branch = false *)
rotate(c) ==
    [c EXCEPT !.delay_slot = c.branch,
              !.branch     = FALSE,
              !.src        = <<reg(c, s(c.ins)), reg(c, t(c.ins))>>]

(* self.regs = self.out_regs; a panic! never gets there *)
copy_back(c) == IF c.fatal THEN c ELSE [c EXCEPT !.regs = c.out_regs]

(* run_next_instruction with the pending load retired before the alignment *)
(* test instead of after the fetch                                         *)
run_next_instruction_retiring(c, ch) ==
    IF c.pc[2] % 4 # 0
    THEN exception(retire(snapshot(c)), LoadAddressError)
    ELSE copy_back(decode_and_execute(
             rotate(retire(advance(fetch_instruction(snapshot(c), ch))))))

(* run_next_instruction with the pending load retired after the            *)
(* instruction has executed                                                *)
run_next_instruction_late(c, ch) ==
    IF c.pc[2] % 4 # 0
    THEN exception(snapshot(c), LoadAddressError)
    ELSE copy_back(retire(decode_and_execute(
             rotate(advance(fetch_instruction(snapshot(c), ch))))))

(* Run a single CPU instruction and return. c.ins is the word the step     *)
(* fetched, c.h the handler it ran and c.src the values reg(s) and reg(t)  *)
(* gave that handler.                                                      *)
run_next_instruction(c, ch) ==
    IF c.pc[2] % 4 # 0
    THEN exception(snapshot(c), LoadAddressError)
    ELSE copy_back(decode_and_execute(
             rotate(retire(advance(fetch_instruction(snapshot(c), ch))))))

(* The record of a step, kept in last and prev: what it ran (ins, h) and   *)
(* where (at), the exception it raised, the registers its instruction      *)
(* wrote, the operands it read, the CPU it started from (old), and how     *)
(* many exceptions have been raised, this step's included, since the last  *)
(* coprocessor 0 instruction (run)                                         *)
NoStep ==
    [kind |-> "none", ins |-> <<0, 0>>, h |-> "none", at |-> <<0, 0>>, exc |-> 0,
     wrote |-> {}, src |-> <<<<0, 0>>, <<0, 0>>>>, old |-> << >>, run |-> 0]

StepRecord(c) ==
    [kind  |-> IF c.fatal THEN "panic" ELSE IF c.h = "none" THEN "fault" ELSE "exec",
     ins   |-> c.ins, h |-> c.h, at |-> c.current_pc, exc |-> c.exc,
     wrote |-> c.wrote, src |-> c.src, old |-> Cpu,
     run   |-> IF c.exc # 0 THEN last.run + 1 ELSE IF c.h = "op_cop0" THEN 0 ELSE last.run]

(* The variables take the values the step left in the CPU *)
Commit(c) ==
    /\ pc' = c.pc /\ next_pc' = c.next_pc /\ current_pc' = c.current_pc
    /\ regs' = c.regs /\ out_regs' = c.out_regs /\ hi' = c.hi /\ lo' = c.lo
    /\ icache' = c.icache /\ sr' = c.sr /\ cause' = c.cause /\ epc' = c.epc
    /\ load' = c.load /\ branch' = c.branch /\ delay_slot' = c.delay_slot
    /\ tk' = c.tk /\ mem' = c.mem /\ cc' = c.cc /\ fatal' = c.fatal
    /\ trace' = c.trace
    /\ last' = StepRecord(c) /\ prev' = last
    /\ calls' = calls
    /\ steps' = steps + 1

(* The word the fetch of this step delivers *)
fetched(c, ch) ==
    LET p == c.pc
        n == (p[2] \div 16) % 256
    IN  IF fetch_addresses(c) = {} THEN instruction(icache_line(c, n), (p[2] \div 4) % 4)
        ELSE IF p \in DOMAIN c.mem THEN c.mem[p] ELSE ch[p]

(* The program: what the words no access has touched yet may hold *)
Choices(P) == [fetch_addresses(Cpu) \ DOMAIN mem -> P]

(* The run goes on: the host has not aborted *)
Running == steps < MaxSteps /\ ~fatal

(* A step that fetches and runs an instruction of the handlers hs *)
Exec(P, hs) ==
    /\ pc[2] % 4 = 0
    /\ \E ch \in Choices(P) :
          /\ decode(fetched(Cpu, ch)) \in hs
          /\ Commit(run_next_instruction(Cpu, ch))

(* A step that finds the PC misaligned *)
FetchFault ==
    /\ Running
    /\ pc[2] % 4 # 0
    /\ Commit(run_next_instruction(Cpu, << >>))

Init ==
    /\ pc = <<49088, 0>> /\ next_pc = <<49088, 4>> /\ current_pc = <<0, 0>>
    /\ regs = [i \in 0 .. 31 |-> IF i = 0 THEN <<0, 0>> ELSE <<57005, 48879>>]
    /\ out_regs = regs
    /\ hi = <<57005, 48879>> /\ lo = <<57005, 48879>>
    /\ icache = << >>
    /\ sr = <<0, 0>> /\ cause = <<0, 0>> /\ epc = <<0, 0>>
    /\ load = <<0, <<0, 0>>>>
    /\ branch = FALSE /\ delay_slot = FALSE
    /\ tk = TimeKeeper_new
    /\ mem = << >>
    /\ cc = [icache_enabled |-> FALSE, tag_test_mode |-> FALSE]
    /\ fatal = FALSE
    /\ trace = << >>
    /\ last = NoStep /\ prev = NoStep
    /\ calls = << >>
    /\ steps = 0

----------------------------------------------------------------------------
(* The steps, by the kind of instruction they run *)

Shift(P)   == Running /\ Exec(P, {"op_sll", "op_srl", "op_sra", "op_sllv", "op_srlv", "op_srav"})
Arith(P)   == Running /\ Exec(P, {"op_add", "op_addu", "op_sub", "op_subu", "op_addi", "op_addiu"})
Logic(P)   == Running /\ Exec(P, {"op_and", "op_or", "op_xor", "op_nor", "op_andi", "op_ori",
                       "op_xori", "op_lui"})
Compare(P) == Running /\ Exec(P, {"op_slt", "op_sltu", "op_slti", "op_sltiu"})
MulDiv(P)  == Running /\ Exec(P, {"op_mult", "op_multu", "op_div", "op_divu",
                       "op_mfhi", "op_mthi", "op_mflo", "op_mtlo"})
Branch(P)  == Running /\ Exec(P, {"op_bxx", "op_beq", "op_bne", "op_blez", "op_bgtz"})
Jump(P)    == Running /\ Exec(P, {"op_j", "op_jal", "op_jr", "op_jalr"})
Trap(P)    == Running /\ Exec(P, {"op_syscall", "op_break", "op_illegal"})
Cop0(P)    == Running /\ Exec(P, {"op_cop0"})
CopUnusable(P) == Running /\ Exec(P, {"op_cop1", "op_cop3", "op_lwc0", "op_lwc1", "op_lwc3",
                           "op_swc0", "op_swc1", "op_swc3"})
Gte(P)     == Running /\ Exec(P, {"op_cop2", "op_lwc2", "op_swc2"})
Load(P)    == Running /\ Exec(P, {"op_lb", "op_lh", "op_lw", "op_lbu", "op_lhu"})
LoadUnaligned(P)  == Running /\ Exec(P, {"op_lwl", "op_lwr"})
Store(P)   == Running /\ Exec(P, {"op_sb", "op_sh", "op_sw"})
StoreUnaligned(P) == Running /\ Exec(P, {"op_swl", "op_swr"})

----------------------------------------------------------------------------
(* Programs: the instruction words a run may find in memory *)

RType(rs, rt, rd, sh, fn) == <<rs * 32 + rt, rd * 2048 + sh * 64 + fn>>
IType(op, rs, rt, im)     == <<op * 1024 + rs * 32 + rt, im>>
JType(op, target)         == <<op * 1024 + (target \div 65536), target % 65536>>

NOP     == RType(0, 0, 0, 0, 0)
SYSCALL == RType(0, 0, 0, 0, 12)
BREAK   == RType(0, 0, 0, 0, 13)
ILLEGAL == IType(63, 0, 0, 0)
ADD(rd, rs, rt)   == RType(rs, rt, rd, 0, 32)
ADDU(rd, rs, rt)  == RType(rs, rt, rd, 0, 33)
SUB(rd, rs, rt)   == RType(rs, rt, rd, 0, 34)
SUBU(rd, rs, rt)  == RType(rs, rt, rd, 0, 35)
JR(rs)            == RType(rs, 0, 0, 0, 8)
JALR(rd, rs)      == RType(rs, 0, rd, 0, 9)
ADDI(rt, rs, im)  == IType(8, rs, rt, im)
ADDIU(rt, rs, im) == IType(9, rs, rt, im)
ORI(rt, rs, im)   == IType(13, rs, rt, im)
LUI(rt, im)       == IType(15, 0, rt, im)
DIV(rs, rt)       == RType(rs, rt, 0, 0, 26)
DIVU(rs, rt)      == RType(rs, rt, 0, 0, 27)
MFC0(rt, rd)      == RType(512 + 0, rt, rd, 0, 0)
MTC0(rt, rd)      == RType(512 + 4, rt, rd, 0, 0)
RFE               == RType(512 + 16, 0, 0, 0, 16)
COP1              == IType(17, 0, 0, 0)
LB(rt, rs, im)    == IType(32, rs, rt, im)
LH(rt, rs, im)    == IType(33, rs, rt, im)
LWL(rt, rs, im)   == IType(34, rs, rt, im)
LW(rt, rs, im)    == IType(35, rs, rt, im)
LBU(rt, rs, im)   == IType(36, rs, rt, im)
LHU(rt, rs, im)   == IType(37, rs, rt, im)
LWR(rt, rs, im)   == IType(38, rs, rt, im)
SB(rt, rs, im)    == IType(40, rs, rt, im)
SH(rt, rs, im)    == IType(41, rs, rt, im)
SW(rt, rs, im)    == IType(43, rs, rt, im)
BLTZ(rs, im)      == IType(1, rs, 0, im)
BGEZ(rs, im)      == IType(1, rs, 1, im)
BLTZAL(rs, im)    == IType(1, rs, 16, im)
BGEZAL(rs, im)    == IType(1, rs, 17, im)
J(target)         == JType(2, target)
JAL(target)       == JType(3, target)
BEQ(rs, rt, im)   == IType(4, rs, rt, im)
BNE(rs, rt, im)   == IType(5, rs, rt, im)
SWL(rt, rs, im)   == IType(42, rs, rt, im)
SWR(rt, rs, im)   == IType(46, rs, rt, im)
COP3              == IType(19, 0, 0, 0)
LWC1(rt, rs, im)  == IType(49, rs, rt, im)
LWC3(rt, rs, im)  == IType(51, rs, rt, im)
SWC1(rt, rs, im)  == IType(57, rs, rt, im)
SWC3(rt, rs, im)  == IType(59, rs, rt, im)


----------------------------------------------------------------------------
(* What a step recorded in last or prev did *)

(* the step ran an instruction to its end *)
Executed(r) == r.kind = "exec"

(* the step raised an exception *)
Raised(r) == r.exc # 0

(* the step ran an instruction to its end and raised nothing *)
Done(r) == r.kind = "exec" /\ r.exc = 0

PlainLoads == {"op_lb", "op_lbu", "op_lh", "op_lhu", "op_lw"}

BranchOps == {"op_bxx", "op_beq", "op_bne", "op_blez", "op_bgtz",
              "op_j", "op_jal", "op_jr", "op_jalr"}

(* the condition of the branch the step ran holds for the operands it read *)
CondHolds(r) ==
    CASE r.h = "op_beq"  -> r.src[1] = r.src[2]
      [] r.h = "op_bne"  -> r.src[1] # r.src[2]
      [] r.h = "op_blez" -> r.src[1][1] >= 32768 \/ r.src[1] = <<0, 0>>
      [] r.h = "op_bgtz" -> r.src[1][1] < 32768 /\ r.src[1] # <<0, 0>>
      [] r.h = "op_bxx"  -> (r.src[1][1] >= 32768) # (r.ins[1] % 2 = 1)
      [] OTHER           -> TRUE

(* the step ran a branch or jump that was taken *)
Taken(r) == r.kind = "exec" /\ r.h \in BranchOps /\ CondHolds(r)

(* where the branch or jump of step r goes, dpc being the address of its delay slot *)
BranchTarget(r, dpc) ==
    CASE r.h \in {"op_j", "op_jal"} ->
             <<(dpc[1] - (dpc[1] % 4096)) + ((r.ins[1] % 1024) * 4) + (r.ins[2] \div 16384),
               (r.ins[2] * 4) % 65536>>
      [] r.h \in {"op_jr", "op_jalr"} -> r.src[1]
      [] OTHER ->
             LET off == r.ins[2] * 4 + (IF r.ins[2] >= 32768 THEN 0 - 262144 ELSE 0)
                 low == dpc[2] + off
             IN  <<(dpc[1] + (low \div 65536)) % 65536, low % 65536>>

(* the byte of memory at address a *)
Byte(a) ==
    LET w == <<a[1], a[2] - (a[2] % 4)>>
        v == IF w \in DOMAIN mem THEN mem[w]
             ELSE IF (w[2] \div 4) % 2 = 0 THEN <<30292, 12816>> ELSE <<65244, 47768>>
        k == a[2] % 4
    IN  IF k < 2 THEN (v[2] \div (256 ^ k)) % 256 ELSE (v[1] \div (256 ^ (k - 2))) % 256

FromBytes(b0, b1, b2, b3) == <<b2 + 256 * b3, b0 + 256 * b1>>

(* a plus the small offset n, within a 64 KiB page *)
Plus(a, n) == <<a[1], a[2] + n>>

----------------------------------------------------------------------------
(* Programs with exceptions of every kind, under either exception vector *)

ProgExc ==
    { NOP, SYSCALL, BREAK, ILLEGAL, COP1, LUI(1, 32704), MTC0(1, 12), ADD(2, 1, 1),
      LW(2, 0, 0), LW(2, 3, 0), SW(2, 3, 0), JR(3) }

Next ==
    \/ Shift(ProgExc) \/ Arith(ProgExc) \/ Logic(ProgExc) \/ Trap(ProgExc)
    \/ Cop0(ProgExc) \/ CopUnusable(ProgExc) \/ Load(ProgExc) \/ Store(ProgExc)
    \/ Jump(ProgExc) \/ FetchFault

Spec == Init /\ [][Next]_vars

(* the exception code each way of raising an exception stores *)
ExpectedCode(r) ==
    CASE r.kind = "fault"                          -> 4
      [] r.h \in {"op_lw", "op_lhu"}               -> 4
      [] r.h \in {"op_sw", "op_sh"}                -> 5
      [] r.h = "op_syscall"                        -> 8
      [] r.h = "op_break"                          -> 9
      [] r.h = "op_illegal"                        -> 10
      [] r.h \in {"op_add", "op_addi", "op_sub"}   -> 12
      [] OTHER                                     -> 11

(* C3: whenever a step raises an exception, afterwards Cause bits [6:2]    *)
(* hold the code of that exception (4 for a load address error, 5 for a    *)
(* store address error, 8 syscall, 9 break, 10 illegal instruction, 11     *)
(* coprocessor error, 12 overflow), every other Cause bit but bit 31 is    *)
(* clear, pc is 0xbfc00180 when Status bit 22 (BEV) is set and 0x80000080  *)
(* when it is clear, and next_pc is pc + 4.                                *)
C3_ExceptionEntry ==
    Raised(last) =>
        /\ last.exc = ExpectedCode(last)
        /\ cause[2] = last.exc * 4
        /\ cause[1] \in {0, 32768}
        /\ pc = IF (sr[1] \div 64) % 2 = 1 THEN <<49088, 384>> ELSE <<32768, 128>>
        /\ next_pc = wrapping_add(pc, <<0, 4>>)

(* an exception taken with BEV set, and so through the ROM vector *)
C3_Witness ==
    /\ Raised(last) /\ last.h = "op_add" /\ last.exc = 12
    /\ (sr[1] \div 64) % 2 = 1
    /\ pc = <<49088, 384>>
    /\ cause = <<0, 48>>

(* C4: for every exception, the fetch fault on a misaligned PC included:   *)
(* if the faulting instruction immediately follows a taken branch or jump  *)
(* then EPC is the address of the branch (the faulting address minus 4)    *)
(* and Cause bit 31 is set; otherwise EPC is the faulting address itself   *)
(* and Cause bit 31 is clear.                                              *)
C4_EpcPrecise ==
    Raised(last) =>
        IF Taken(prev)
        THEN epc = wrapping_sub(last.at, <<0, 4>>) /\ cause[1] >= 32768
        ELSE epc = last.at /\ cause[1] < 32768

(* C10: a step raises LoadAddressError at the fetch if and only if pc is   *)
(* not a multiple of 4 when the step starts; such a step fetches nothing   *)
(* (no Interconnect access, no I-cache access, no cycle charged), runs no  *)
(* instruction, and leaves the general registers, HI, LO and the pending   *)
(* load as they were.                                                      *)
C10_FetchAlignment ==
    last.kind # "none" =>
        /\ (last.kind = "fault") <=> (last.old.pc[2] % 4 # 0)
        /\ last.kind = "fault" =>
              /\ last.exc = 4 /\ cause[2] = 16
              /\ last.h = "none"
              /\ \A i \in DOMAIN trace : trace[i].ev = "pc_change"
              /\ tk = last.old.tk
              /\ mem = last.old.mem /\ icache = last.old.icache
              /\ regs = last.old.regs /\ out_regs = last.old.out_regs
              /\ hi = last.old.hi /\ lo = last.old.lo
              /\ load = last.old.load
        /\ last.kind # "fault" =>
              /\ \E i \in DOMAIN trace : trace[i].ev = "load_instruction"
              /\ tk.now > last.old.tk.now

(* a fetch fault taken while a load is pending *)
C10_Witness ==
    /\ last.kind = "fault"
    /\ load[1] = 2 /\ load[2] # regs[2]
    /\ pc = <<32768, 128>>
----------------------------------------------------------------------------
(* Programs that write R0: ALU results, a link, loads and MFC0 *)

ProgR0 ==
    { ORI(0, 0, 1), ADDU(0, 1, 1), LUI(0, 4660), LW(0, 0, 0), LB(0, 0, 7),
      MFC0(0, 13), SYSCALL, JALR(0, 0), NOP }

NextR0 ==
    \/ Logic(ProgR0) \/ Arith(ProgR0) \/ Load(ProgR0) \/ Cop0(ProgR0)
    \/ Trap(ProgR0) \/ Jump(ProgR0) \/ Shift(ProgR0)

SpecR0 == Init /\ [][NextR0]_vars

(* C5: register 0 is hard-wired: after reset and after every step, for any *)
(* instruction sequence (ALU results, link writes, loads and MFC0 whose    *)
(* destination is r0 included), regs[0] = 0 and out_regs[0] = 0.           *)
C5_RegisterZero == regs[0] = <<0, 0>> /\ out_regs[0] = <<0, 0>>

(* an instruction has passed r0 to set_reg, and the step before it left a  *)
(* load of a non-zero value to r0 pending, which this step retired         *)
C5_Witness ==
    /\ Executed(last) /\ 0 \in last.wrote
    /\ last.old.load[1] = 0 /\ last.old.load[2] # <<0, 0>>
----------------------------------------------------------------------------
(* Programs of branches and jumps, taken and not, linking and not, with an *)
(* exception or another branch in a delay slot                             *)

ProgBranch ==
    { BEQ(0, 0, 2), BNE(0, 0, 2), BLTZ(1, 65533), BLTZAL(0, 2), BGEZAL(0, 2),
      BLTZAL(1, 3), J(64), JAL(32), JR(31), SYSCALL, NOP }

NextBranch ==
    \/ Branch(ProgBranch) \/ Jump(ProgBranch) \/ Trap(ProgBranch)
    \/ Shift(ProgBranch) \/ FetchFault

SpecBranch == Init /\ [][NextBranch]_vars

(* the registers a branch or jump may write: the link register of the      *)
(* linking ones                                                            *)
LinkRegs(r) ==
    CASE r.h = "op_jal"  -> {31}
      [] r.h = "op_jalr" -> {r.ins[2] \div 2048}
      [] r.h = "op_bxx"  -> IF (r.ins[1] \div 16) % 2 = 1 THEN {31} ELSE {}
      [] OTHER           -> {}

(* C2, as the code has it: a taken branch or jump at address A changes, of *)
(* the program counters, only next_pc, which becomes its target, and sets  *)
(* the branch flag; pc moves on to the old next_pc, which is A + 4 unless  *)
(* the branch itself sits in the delay slot of a taken branch. It leaves   *)
(* SR, CAUSE, EPC, HI and LO alone and writes no register but its link     *)
(* register. The instruction run next is the one at that pc, run as a      *)
(* delay slot; if it raises no exception and is not itself a taken branch, *)
(* pc is the branch target after it. A branch not taken leaves pc and      *)
(* next_pc sequential.                                                     *)
C2_DelaySlot ==
    /\ Taken(last) =>
          /\ branch
          /\ pc = last.old.next_pc
          /\ (~Taken(prev) => pc = wrapping_add(last.at, <<0, 4>>))
          /\ next_pc = BranchTarget(last, pc)
          /\ sr = last.old.sr /\ cause = last.old.cause /\ epc = last.old.epc
          /\ hi = last.old.hi /\ lo = last.old.lo
          /\ last.wrote \subseteq LinkRegs(last)
    /\ (Taken(prev) /\ Executed(last)) =>
          /\ last.at = prev.old.next_pc
          /\ delay_slot
          /\ (Done(last) /\ ~Taken(last)) => pc = BranchTarget(prev, last.at)
    /\ (Done(last) /\ last.h \in BranchOps /\ ~Taken(last)) =>
          /\ ~branch
          /\ pc = last.old.next_pc
          /\ next_pc = wrapping_add(pc, <<0, 4>>)

(* a taken branch at A, the instruction at A + 4 run as its delay slot,    *)
(* and pc at the target, away from the delay slot                          *)
C2_Witness ==
    /\ Taken(prev) /\ prev.h = "op_beq"
    /\ Done(last) /\ ~Taken(last) /\ delay_slot
    /\ last.at = wrapping_add(prev.at, <<0, 4>>)
    /\ pc = wrapping_add(last.at, <<0, 8>>)

(* C2, as the specification has it: after a taken branch or jump at A the  *)
(* instruction at A + 4 is always the one executed next.                   *)
C2_AlwaysNext == Taken(last) => pc = wrapping_add(last.at, <<0, 4>>)

(* C8: BGEZAL and BLTZAL write the return address into R31 every time they *)
(* execute, whether or not the branch condition holds.                     *)
C8_LinkAlways ==
    (Executed(last) /\ last.h = "op_bxx" /\ (last.ins[1] \div 16) % 2 = 1) =>
        regs[31] = wrapping_add(last.old.next_pc, <<0, 4>>)
----------------------------------------------------------------------------
(* Programs of loads followed by instructions that read or write the       *)
(* loaded register, or by a fetch fault                                    *)

ProgLoad ==
    { LW(1, 0, 0), LB(1, 0, 7), LBU(1, 0, 7), LH(1, 0, 6), LHU(1, 0, 2),
      ADDU(2, 1, 0), ADDIU(1, 0, 5), MFC0(1, 12), JR(3), NOP }

NextLoad ==
    \/ Load(ProgLoad) \/ Arith(ProgLoad) \/ Cop0(ProgLoad) \/ Jump(ProgLoad)
    \/ Shift(ProgLoad) \/ FetchFault

SpecLoad == Init /\ [][NextLoad]_vars

(* the value the load of step r delivers: the bytes of memory at its       *)
(* address, zero- or sign-extended                                         *)
LoadedValue(r) ==
    LET a  == wrapping_add(r.src[1], <<IF r.ins[2] >= 32768 THEN 65535 ELSE 0, r.ins[2]>>)
        b0 == Byte(a)
        b1 == Byte(Plus(a, 1))
    IN  CASE r.h = "op_lb"  -> <<IF b0 >= 128 THEN 65535 ELSE 0, IF b0 >= 128 THEN 65280 + b0 ELSE b0>>
          [] r.h = "op_lbu" -> <<0, b0>>
          [] r.h = "op_lh"  -> <<IF b1 >= 128 THEN 65535 ELSE 0, b0 + 256 * b1>>
          [] r.h = "op_lhu" -> <<0, b0 + 256 * b1>>
          [] r.h = "op_lw"  -> FromBytes(b0, b1, Byte(Plus(a, 2)), Byte(Plus(a, 3)))

(* C1: load delay. A plain load (LB, LBU, LH, LHU, LW) run in step N does  *)
(* not write its destination rt in step N: the value is left pending and   *)
(* rt is as the step found it (but for an older load to rt that retires in *)
(* this step). The instruction run next reads its source operands from the *)
(* registers as step N left them, so it reads the pre-load value of rt;    *)
(* after that instruction, unless it targets rt itself, rt holds the       *)
(* loaded value, which the instruction after it reads.                     *)
C1_LoadDelay ==
    /\ (Done(last) /\ last.h \in PlainLoads) =>
          /\ last.ins[1] % 32 \notin last.wrote
          /\ load = <<last.ins[1] % 32, LoadedValue(last)>>
          /\ (last.old.load[1] # last.ins[1] % 32) =>
                regs[last.ins[1] % 32] = last.old.regs[last.ins[1] % 32]
    /\ Executed(last) =>
          last.src = <<last.old.regs[(last.ins[1] \div 32) % 32], last.old.regs[last.ins[1] % 32]>>
    /\ (Executed(last) /\ last.old.load[1] # 0
          /\ last.old.load[1] \notin last.wrote /\ load[1] # last.old.load[1]) =>
          regs[last.old.load[1]] = last.old.load[2]

(* LW r1 in step N; ADDU r2, r1, r0 in step N+1 has read the pre-load      *)
(* value of r1, and r1 now holds the loaded word                           *)
C1_Witness ==
    /\ Done(prev) /\ prev.h = "op_lw" /\ prev.ins[1] % 32 = 1
    /\ Done(last) /\ last.h = "op_addu" /\ (last.ins[1] \div 32) % 32 = 1
    /\ last.src[1] = prev.old.regs[1]
    /\ regs[1] = <<30292, 12816>>
    /\ regs[2] = <<57005, 48879>>

(* C6: load cancellation. When two loads to the same register rt run       *)
(* back-to-back the first is cancelled: its value is never written to rt,  *)
(* so after the second load, where the next instruction reads it, rt still *)
(* holds the value it had before the first load.                           *)
C6_LoadCancelled ==
    (/\ Done(prev) /\ prev.h \in PlainLoads
     /\ Done(last) /\ last.h \in PlainLoads
     /\ prev.ins[1] % 32 = last.ins[1] % 32
     /\ prev.old.load[1] # prev.ins[1] % 32) =>
        regs[last.ins[1] % 32] = prev.old.regs[last.ins[1] % 32]
----------------------------------------------------------------------------
(* Programs of LWL and LWR at every byte offset, after each other, after a *)
(* plain load and after an ALU write                                       *)

ProgUnaligned ==
    { LWR(1, 0, 1), LWL(1, 0, 4), LWR(1, 0, 2), LWL(1, 0, 5), LWR(1, 0, 3), LWL(1, 0, 6),
      LWR(1, 0, 4), LWL(1, 0, 7), LB(1, 0, 7), ADDU(2, 1, 0), ADDIU(1, 0, 5) }

NextUnaligned ==
    \/ LoadUnaligned(ProgUnaligned) \/ Load(ProgUnaligned) \/ Arith(ProgUnaligned)

SpecUnaligned == Init /\ [][NextUnaligned]_vars

(* byte j of the word w *)
WordByte(w, j) == IF j < 2 THEN (w[2] \div (256 ^ j)) % 256 ELSE (w[1] \div (256 ^ (j - 2))) % 256

(* the address LWL or LWR of step r accesses *)
UnalignedAddr(r) ==
    wrapping_add(r.src[1], <<IF r.ins[2] >= 32768 THEN 65535 ELSE 0, r.ins[2]>>)

(* the word LWL / LWR at address a make of the current value cur: LWL puts *)
(* the bytes of memory from the word boundary up to a at the top of the    *)
(* register, LWR the bytes from a up to the next boundary at the bottom    *)
Blend(h, cur, a) ==
    LET k  == a[2] % 4
        a0 == <<a[1], a[2] - k>>
        B(j) == IF h = "op_lwl"
                THEN IF j >= 3 - k THEN Byte(Plus(a0, j - (3 - k))) ELSE WordByte(cur, j)
                ELSE IF j <= 3 - k THEN Byte(Plus(a0, k + j)) ELSE WordByte(cur, j)
    IN  FromBytes(B(0), B(1), B(2), B(3))

(* C7: LWL and LWR bypass the load delay. The current value they blend the *)
(* memory bytes with is the value of a load to rt still in flight, when    *)
(* the instruction before them left one, and the value of rt otherwise; so *)
(* LWR at address a directly followed by LWL at a + 3 (or LWL first, then  *)
(* LWR) leaves the complete unaligned word at a pending for rt.            *)
C7_UnalignedBypass ==
    /\ (Done(last) /\ last.h \in {"op_lwl", "op_lwr"}) =>
          load = <<last.ins[1] % 32,
                   Blend(last.h,
                         IF last.old.load[1] = last.ins[1] % 32
                         THEN last.old.load[2]
                         ELSE last.old.regs[last.ins[1] % 32],
                         UnalignedAddr(last))>>
    /\ (/\ Done(prev) /\ Done(last)
        /\ \/ prev.h = "op_lwr" /\ last.h = "op_lwl"
               /\ UnalignedAddr(last) = wrapping_add(UnalignedAddr(prev), <<0, 3>>)
           \/ prev.h = "op_lwl" /\ last.h = "op_lwr"
               /\ UnalignedAddr(prev) = wrapping_add(UnalignedAddr(last), <<0, 3>>)
        /\ prev.ins[1] % 32 = last.ins[1] % 32) =>
          LET a == IF last.h = "op_lwr" THEN UnalignedAddr(last) ELSE UnalignedAddr(prev)
          IN  load = <<last.ins[1] % 32,
                       FromBytes(Byte(a), Byte(Plus(a, 1)), Byte(Plus(a, 2)), Byte(Plus(a, 3)))>>

(* LWR r1, 1(r0) then LWL r1, 4(r0): the word at address 1 is pending      *)
C7_Witness ==
    /\ Done(prev) /\ prev.h = "op_lwr" /\ prev.ins = LWR(1, 0, 1)
    /\ Done(last) /\ last.h = "op_lwl" /\ last.ins = LWL(1, 0, 4)
    /\ load = <<1, <<39030, 21554>>>>
    /\ last.old.regs[1] = <<57005, 48879>>
----------------------------------------------------------------------------
(* Signed and unsigned additions and subtractions of operands at and       *)
(* around the ends of the signed range, which earlier instructions (LUI,   *)
(* ORI) have left in r1 and r2; r3 is the destination, with or without a   *)
(* load to it in flight                                                    *)

ArithValues ==
    { <<0, 1>>, <<32767, 65535>>, <<32768, 0>>, <<65535, 65535>>, <<16384, 0>>, <<49152, 0>> }

ProgArith ==
    { ADD(3, 1, 2), ADDU(3, 1, 2), SUB(3, 1, 2), SUBU(3, 1, 2),
      ADDI(3, 1, 32767), ADDI(3, 1, 32768), ADDIU(3, 1, 32767), ADDIU(3, 1, 32768),
      LW(3, 0, 0) }

InitArith ==
    /\ pc = <<49088, 0>> /\ next_pc = <<49088, 4>> /\ current_pc = <<0, 0>>
    /\ \E a \in ArithValues, b \in ArithValues :
          regs = [i \in 0 .. 31 |-> CASE i = 0 -> <<0, 0>> [] i = 1 -> a [] i = 2 -> b
                                      [] OTHER -> <<57005, 48879>>]
    /\ out_regs = regs
    /\ hi = <<57005, 48879>> /\ lo = <<57005, 48879>>
    /\ icache = << >>
    /\ sr = <<0, 0>> /\ cause = <<0, 0>> /\ epc = <<0, 0>>
    /\ load = <<0, <<0, 0>>>>
    /\ branch = FALSE /\ delay_slot = FALSE
    /\ tk = TimeKeeper_new
    /\ mem = << >>
    /\ cc = [icache_enabled |-> FALSE, tag_test_mode |-> FALSE]
    /\ fatal = FALSE
    /\ trace = << >>
    /\ last = NoStep /\ prev = NoStep
    /\ calls = << >>
    /\ steps = 0

ArithStep == steps < MaxArithSteps /\ Arith(ProgArith)
LoadStep  == steps < MaxArithSteps /\ Load(ProgArith)

NextArith == ArithStep \/ LoadStep

SpecArith == InitArith /\ [][NextArith]_vars

(* the high half of a word as a signed number *)
SignedHi(a) == IF a[1] >= 32768 THEN a[1] - 65536 ELSE a[1]

(* the exact signed sum (sign = 1) or difference (sign = -1) of a and b    *)
(* as <<high part, low half>>: the high part leaves -32768 .. 32767        *)
(* exactly when the result is not an i32                                   *)
Exact(a, b, sign) ==
    LET low == a[2] + sign * b[2]
    IN  <<SignedHi(a) + sign * SignedHi(b) + (low \div 65536), low % 65536>>

(* C9: ADD, ADDI and SUB raise Overflow exactly when the signed 32-bit     *)
(* result is not representable, and then do not write the destination,     *)
(* which keeps its value (a load to it in flight still lands); otherwise   *)
(* they write the result. ADDU, ADDIU and SUBU never raise an exception    *)
(* and write the result modulo 2^32.                                       *)
C9_SignedOverflow ==
    (Executed(last) /\ last.h \in {"op_add", "op_addi", "op_sub", "op_addu", "op_addiu", "op_subu"}) =>
        LET itype   == last.h \in {"op_addi", "op_addiu"}
            rd      == IF itype THEN last.ins[1] % 32 ELSE last.ins[2] \div 2048
            b       == IF itype THEN <<IF last.ins[2] >= 32768 THEN 65535 ELSE 0, last.ins[2]>>
                       ELSE last.src[2]
            e       == Exact(last.src[1], b, IF last.h \in {"op_sub", "op_subu"} THEN 0 - 1 ELSE 1)
            fits    == e[1] >= 0 - 32768 /\ e[1] <= 32767
            checked == last.h \in {"op_add", "op_addi", "op_sub"}
        IN  IF checked /\ ~fits
            THEN /\ last.exc = 12
                 /\ rd \notin last.wrote
                 /\ (last.old.load[1] # rd) => regs[rd] = last.old.regs[rd]
            ELSE /\ last.exc = 0
                 /\ regs[rd] = <<e[1] % 65536, e[2]>>

(* 0x80000000 - 1 has overflowed in SUB: r3 keeps the reset value          *)
C9_Witness ==
    /\ Executed(last) /\ last.h = "op_sub" /\ last.exc = 12
    /\ last.src = <<<<32768, 0>>, <<0, 1>>>>
    /\ regs[3] = <<57005, 48879>>
    /\ cause = <<0, 48>>
----------------------------------------------------------------------------
(* Programs of loads and stores of every width at addresses that are and   *)
(* are not multiples of their width                                        *)

ProgAlign ==
    { LH(1, 0, 1), LHU(1, 0, 1), LW(1, 0, 2), LW(1, 0, 5), LH(1, 0, 2), LW(1, 0, 4),
      SH(2, 0, 1), SW(2, 0, 6), SW(2, 0, 3), SB(2, 0, 1), SH(2, 0, 2), SW(2, 0, 4), NOP }

NextAlign == Load(ProgAlign) \/ Store(ProgAlign) \/ Shift(ProgAlign)

SpecAlign == Init /\ [][NextAlign]_vars

(* the effective address of the load or store of step r *)
AccessAddr(r) ==
    wrapping_add(r.src[1], <<IF r.ins[2] >= 32768 THEN 65535 ELSE 0, r.ins[2]>>)

(* the last step has passed through the hook or bus access e *)
Event(e) == \E i \in DOMAIN trace : trace[i].ev = e

(* every word of memory known before the last step still holds its value *)
MemKept == \A a \in DOMAIN last.old.mem : a \in DOMAIN mem /\ mem[a] = last.old.mem[a]

(* the load or store of step r is at an address its width does not divide *)
Misaligned(r) ==
    \/ r.h \in {"op_lh", "op_lhu", "op_sh"} /\ AccessAddr(r)[2] % 2 # 0
    \/ r.h \in {"op_lw", "op_sw"} /\ AccessAddr(r)[2] % 4 # 0

(* C11: LH and LHU at an odd effective address, and LW at an effective     *)
(* address that is not a multiple of 4, raise LoadAddressError, read no    *)
(* memory and stage no pending load.                                       *)
C11_LoadAlignment ==
    (Executed(last) /\ last.h \in {"op_lh", "op_lhu", "op_lw"} /\ Misaligned(last)) =>
        /\ last.exc = LoadAddressError
        /\ ~Event("memory_read") /\ ~Event("load")
        /\ load = <<0, <<0, 0>>>>

(* C12: SH at an odd effective address and SW at an effective address that *)
(* is not a multiple of 4 raise StoreAddressError and leave memory and the *)
(* I-cache as they were; SB, SH and SW at an aligned address raise nothing *)
(* and, the cache not being isolated, memory holds the stored byte,        *)
(* halfword or word at that address when the step ends.                    *)
C12_StoreAlignment ==
    (last.kind # "none" /\ last.h \in {"op_sb", "op_sh", "op_sw"}) =>
        IF Misaligned(last)
        THEN /\ last.kind = "exec" /\ last.exc = StoreAddressError
             /\ cause[2] = 20
             /\ ~Event("memory_write") /\ ~Event("store") /\ ~Event("cache_maintenance")
             /\ MemKept
             /\ icache = last.old.icache
        ELSE /\ last.exc = 0
             /\ ~cache_isolated(last.old.sr) =>
                   LET a == AccessAddr(last)
                       v == last.src[2]
                   IN  /\ last.kind = "exec"
                       /\ Event("store")
                       /\ Byte(a) = v[2] % 256
                       /\ last.h \in {"op_sh", "op_sw"} => Byte(Plus(a, 1)) = v[2] \div 256
                       /\ last.h = "op_sw" =>
                             /\ Byte(Plus(a, 2)) = v[1] % 256
                             /\ Byte(Plus(a, 3)) = v[1] \div 256

(* SW r2, 6(r0) has raised StoreAddressError after an aligned SW r2, 4(r0) *)
(* had put r2 in memory, where it still is                                 *)
C12_Witness ==
    /\ Done(prev) /\ prev.ins = SW(2, 0, 4)
    /\ Executed(last) /\ last.ins = SW(2, 0, 6) /\ last.exc = StoreAddressError
    /\ mem[<<0, 4>>] = <<57005, 48879>>
    /\ pc = <<32768, 128>>
----------------------------------------------------------------------------
(* Programs of the instruction words decode_and_execute has no handler     *)
(* for: one for each primary opcode and each funct missing from the        *)
(* tables, with operand fields set, and one with every other bit set; a    *)
(* jump puts them in a delay slot                                          *)

DispatchOpcodes ==
    (0 .. 19) \cup (32 .. 38) \cup {40, 41, 42, 43, 46} \cup (48 .. 51) \cup (56 .. 59)

FunctTable ==
    {0, 2, 3, 4, 6, 7, 8, 9, 12, 13, 16, 17, 18, 19, 24, 25, 26, 27} \cup (32 .. 39) \cup {42, 43}

ProgIllegal ==
    {IType(op, 1, 2, 3) : op \in (0 .. 63) \ DispatchOpcodes}
        \cup {RType(1, 2, 3, 4, fn) : fn \in (0 .. 63) \ FunctTable}
        \cup {IType(63, 31, 31, 65535), J(64), NOP}

IllegalStep == steps < MaxTrapSteps /\ Trap(ProgIllegal)
JumpStep    == steps < MaxTrapSteps /\ Jump(ProgIllegal)
NopStep     == steps < MaxTrapSteps /\ Shift(ProgIllegal)

NextIllegal == IllegalStep \/ JumpStep \/ NopStep

SpecIllegal == Init /\ [][NextIllegal]_vars

(* the word w has no entry in the primary opcode table, or has primary     *)
(* opcode 0 and no entry in the funct table                                *)
Unmapped(w) ==
    \/ (w[1] \div 1024) \notin DispatchOpcodes
    \/ (w[1] \div 1024) = 0 /\ (w[2] % 64) \notin FunctTable

(* C13: every instruction word whose primary opcode is not in the dispatch *)
(* table, or whose primary opcode is 0 and whose funct is not in the funct *)
(* table, raises IllegalInstruction (Cause code 0xA), and the CPU goes on  *)
(* at the exception handler: the host does not abort.                      *)
C13_IllegalInstruction ==
    (last.h # "none" /\ Unmapped(last.ins)) =>
        /\ last.kind = "exec" /\ ~fatal
        /\ last.exc = IllegalInstruction
        /\ cause[2] = 40
        /\ pc = exception_handler(sr)
        /\ next_pc = wrapping_add(pc, <<0, 4>>)
        /\ last.wrote = {}

(* the word 0xffffffff in the delay slot of a jump has raised              *)
(* IllegalInstruction and the CPU is at the handler                        *)
C13_Witness ==
    /\ Taken(prev) /\ last.ins = <<65535, 65535>>
    /\ last.exc = IllegalInstruction /\ cause = <<32768, 40>>
    /\ epc = <<49088, 0>>
    /\ pc = <<32768, 128>> /\ ~fatal
----------------------------------------------------------------------------
(* Programs of the instructions of the coprocessors 1 and 3, with operand  *)
(* fields clear, set as a load or store of r1 would have them, and all     *)
(* set; a load before them leaves a value in flight                        *)

ProgCop ==
    { COP1, COP3, IType(17, 31, 31, 65535), IType(19, 31, 31, 65535),
      LWC1(1, 0, 4), LWC3(1, 0, 4), SWC1(2, 0, 4), SWC3(2, 0, 4),
      LWC1(31, 31, 65535), LWC3(0, 0, 0), SWC1(0, 0, 0), SWC3(31, 31, 65535),
      LW(1, 0, 4), NOP }

NextCop == CopUnusable(ProgCop) \/ Load(ProgCop) \/ Shift(ProgCop)

SpecCop == Init /\ [][NextCop]_vars

(* C14: every COP1, COP3, LWC1, LWC3, SWC1 and SWC3 instruction raises     *)
(* CoprocessorError (Cause code 0xB) whatever its operand fields are; it   *)
(* writes no general register (the registers are as the step found them,   *)
(* but for a load in flight, which lands), stages no load, and neither     *)
(* reads nor writes memory.                                                *)
C14_CoprocessorUnusable ==
    (last.h \in {"op_cop1", "op_cop3", "op_lwc1", "op_lwc3", "op_swc1", "op_swc3"}) =>
        /\ last.kind = "exec"
        /\ last.exc = CoprocessorError
        /\ cause[2] = 44
        /\ pc = exception_handler(sr)
        /\ last.wrote = {}
        /\ \A i \in 0 .. 31 :
              regs[i] = IF i = last.old.load[1] /\ i # 0 THEN last.old.load[2] ELSE last.old.regs[i]
        /\ out_regs = regs
        /\ load = <<0, <<0, 0>>>>
        /\ hi = last.old.hi /\ lo = last.old.lo
        /\ MemKept /\ icache = last.old.icache
        /\ ~Event("memory_read") /\ ~Event("load")
        /\ ~Event("memory_write") /\ ~Event("store") /\ ~Event("cache_maintenance")

(* SWC3 with every operand bit set has raised CoprocessorError right after *)
(* LW r1, 4(r0): the loaded word has landed in r1, memory is untouched     *)
C14_Witness ==
    /\ Done(prev) /\ prev.ins = LW(1, 0, 4)
    /\ last.ins = SWC3(31, 31, 65535) /\ last.exc = CoprocessorError
    /\ cause = <<0, 44>>
    /\ regs[1] = <<65244, 47768>>
    /\ mem[<<0, 4>>] = <<65244, 47768>>
----------------------------------------------------------------------------
(* Programs that set and clear the cache isolation bit of SR and store     *)
(* bytes, halfwords and words, zero and not, aligned and (SWL, SWR) not,   *)
(* with the instruction cache enabled or not and in tag test mode or not,  *)
(* as the Interconnect the CPU is built on may have it                     *)

ProgCache ==
    { LUI(1, 1), MTC0(1, 12), MTC0(0, 12), SW(0, 0, 16), SW(2, 0, 4), SB(0, 0, 1),
      SH(0, 0, 2), SWL(0, 0, 7), SWR(0, 0, 4), SWL(2, 0, 5) }

InitCache ==
    /\ pc = <<49088, 0>> /\ next_pc = <<49088, 4>> /\ current_pc = <<0, 0>>
    /\ regs = [i \in 0 .. 31 |-> IF i = 0 THEN <<0, 0>> ELSE <<57005, 48879>>]
    /\ out_regs = regs
    /\ hi = <<57005, 48879>> /\ lo = <<57005, 48879>>
    /\ icache = << >>
    /\ sr = <<0, 0>> /\ cause = <<0, 0>> /\ epc = <<0, 0>>
    /\ load = <<0, <<0, 0>>>>
    /\ branch = FALSE /\ delay_slot = FALSE
    /\ tk = TimeKeeper_new
    /\ mem = << >>
    /\ cc \in [icache_enabled : BOOLEAN, tag_test_mode : BOOLEAN]
    /\ fatal = FALSE
    /\ trace = << >>
    /\ last = NoStep /\ prev = NoStep
    /\ calls = << >>
    /\ steps = 0

NextCache ==
    \/ Logic(ProgCache) \/ Cop0(ProgCache) \/ Store(ProgCache) \/ StoreUnaligned(ProgCache)

SpecCache == InitCache /\ [][NextCache]_vars

StoreOps == {"op_sb", "op_sh", "op_sw", "op_swl", "op_swr"}

(* every word of memory the last step has met for the first time is the    *)
(* instruction it fetched or holds its initial contents                    *)
MemFresh ==
    \A a \in DOMAIN mem \ DOMAIN last.old.mem :
        \/ a = last.at
        \/ mem[a] = IF (a[2] \div 4) % 2 = 0 THEN <<30292, 12816>> ELSE <<65244, 47768>>

(* C15: a store instruction (SB, SH, SW, SWL, SWR) that starts with Status *)
(* bit 16 (cache isolated) set changes no memory through the Interconnect: *)
(* the store is handled by cache maintenance alone (or the host stops).    *)
(* One that starts with the bit clear goes to the Interconnect and leaves  *)
(* the instruction cache as it was.                                        *)
C15_CacheIsolation ==
    (last.h \in StoreOps /\ last.exc = 0) =>
        IF cache_isolated(last.old.sr)
        THEN /\ ~Event("store")
             /\ MemKept /\ MemFresh
             /\ fatal \/ Event("cache_maintenance")
        ELSE /\ ~fatal
             /\ Event("store") /\ ~Event("cache_maintenance")
             /\ icache = last.old.icache

(* SW r0, 16(r0) with the cache isolated and enabled, not in tag test      *)
(* mode: the zero word is in line 1 of the instruction cache and memory    *)
(* has not seen the store                                                  *)
C15_Witness ==
    /\ Done(last) /\ last.ins = SW(0, 0, 16) /\ cache_isolated(last.old.sr)
    /\ Event("cache_maintenance") /\ ~fatal
    /\ 1 \in DOMAIN icache /\ icache[1].line[1] = <<0, 0>>
    /\ <<0, 16>> \notin DOMAIN mem
----------------------------------------------------------------------------
(* The programs of branches and jumps, with a branch to the instruction    *)
(* after its delay slot among them                                         *)

ProgPair == ProgBranch \cup {BEQ(0, 0, 1)}

NextPair ==
    \/ Branch(ProgPair) \/ Jump(ProgPair) \/ Trap(ProgPair) \/ Shift(ProgPair) \/ FetchFault

SpecPair == Init /\ [][NextPair]_vars

(* C16: at the start of every step next_pc = pc + 4 (mod 2^32), unless the *)
(* instruction executed last was a taken branch or jump, and then the      *)
(* branch flag is set; next_pc = pc + 4 right after every exception.       *)
C16_PcPair ==
    /\ ~branch => next_pc = wrapping_add(pc, <<0, 4>>)
    /\ next_pc # wrapping_add(pc, <<0, 4>>) => Taken(last)
    /\ Raised(last) => next_pc = wrapping_add(pc, <<0, 4>>)

(* an exception in the delay slot of a taken branch: the pair is           *)
(* sequential at the handler, the branch target is forgotten               *)
C16_Witness ==
    /\ Taken(prev) /\ Raised(last) /\ delay_slot /\ ~branch
    /\ pc = <<32768, 128>> /\ next_pc = <<32768, 132>>

(* C17, as the code has it: after every step that raises no exception,     *)
(* next_pc = pc + 4 or the step has run a taken branch or jump (the branch *)
(* flag is set exactly then), whose target next_pc is; both hold together  *)
(* when the target is the instruction after the delay slot.                *)
C17_PcPairOrBranch ==
    Done(last) =>
        /\ branch <=> Taken(last)
        /\ next_pc = wrapping_add(pc, <<0, 4>>) \/ branch
        /\ branch => next_pc = BranchTarget(last, pc)

(* BEQ r0, r0, 1 run in the delay slot of a taken branch: the branch flag  *)
(* is set, next_pc = pc + 4 and delay_slot is set, all three               *)
C17_Witness ==
    /\ Taken(prev) /\ Done(last) /\ last.ins = BEQ(0, 0, 1)
    /\ branch /\ delay_slot
    /\ next_pc = wrapping_add(pc, <<0, 4>>)

(* C17, as the specification has it: after every step that raises no       *)
(* exception, exactly one of next_pc = pc + 4 and "delay_slot was set for  *)
(* the step" holds.                                                        *)
C17_PcPairXorDelay ==
    Done(last) => ((next_pc = wrapping_add(pc, <<0, 4>>)) # delay_slot)

(* C18: when a taken branch B2 sits in the delay slot of a taken branch    *)
(* B1, the instruction run after B2 is the one at B1's target T1, run as   *)
(* B2's delay slot, and it is the only one run there: after it execution   *)
(* is at B2's target, which is relative to T1, the value of pc when B2     *)
(* runs, and not to B2's own address.                                      *)
C18_NestedBranch ==
    /\ (Taken(prev) /\ Taken(last)) =>
          /\ last.at = prev.old.next_pc
          /\ delay_slot /\ branch
          /\ pc = BranchTarget(prev, last.at)
          /\ next_pc = BranchTarget(last, pc)
    /\ (Taken(prev) /\ prev.old.branch /\ Executed(last)) =>
          /\ last.at = prev.old.next_pc
          /\ delay_slot
          /\ (Done(last) /\ ~Taken(last)) =>
                /\ pc = BranchTarget(prev, last.at)
                /\ next_pc = wrapping_add(pc, <<0, 4>>)

(* BEQ r0, r0, 2 at A and at A + 4: the instruction at T1 = A + 12 has run *)
(* and pc is T1 + 8 = A + 20, not A + 16                                   *)
C18_Witness ==
    /\ Taken(prev) /\ prev.old.branch /\ prev.ins = BEQ(0, 0, 2)
    /\ prev.at = <<49088, 4>>
    /\ Done(last) /\ ~Taken(last)
    /\ last.at = <<49088, 12>>
    /\ pc = <<49088, 20>>
----------------------------------------------------------------------------
(* Exceptions and RFE from every state of the mode stack: SR starts with   *)
(* any of the 64 values of bits [5:0], under all-clear and all-set upper   *)
(* bits and under either exception vector, as MTC0 can leave it            *)

StatusValues ==
    {<<h, k + m>> : h \in {0, 64, 65535}, k \in {0, 65472}, m \in 0 .. 63}

ProgStatus == { SYSCALL, ILLEGAL, RFE, NOP }

InitStatus ==
    /\ pc = <<49088, 0>> /\ next_pc = <<49088, 4>> /\ current_pc = <<0, 0>>
    /\ regs = [i \in 0 .. 31 |-> IF i = 0 THEN <<0, 0>> ELSE <<57005, 48879>>]
    /\ out_regs = regs
    /\ hi = <<57005, 48879>> /\ lo = <<57005, 48879>>
    /\ icache = << >>
    /\ sr \in StatusValues
    /\ cause = <<0, 0>> /\ epc = <<0, 0>>
    /\ load = <<0, <<0, 0>>>>
    /\ branch = FALSE /\ delay_slot = FALSE
    /\ tk = TimeKeeper_new
    /\ mem = << >>
    /\ cc = [icache_enabled |-> FALSE, tag_test_mode |-> FALSE]
    /\ fatal = FALSE
    /\ trace = << >>
    /\ last = NoStep /\ prev = NoStep
    /\ calls = << >>
    /\ steps = 0

TrapStep   == steps < MaxArithSteps /\ Trap(ProgStatus)
ReturnStep == steps < MaxArithSteps /\ Cop0(ProgStatus)
IdleStep   == steps < MaxArithSteps /\ Shift(ProgStatus)

NextStatus == TrapStep \/ ReturnStep \/ IdleStep

SpecStatus == InitStatus /\ [][NextStatus]_vars

(* the step r has run RFE *)
IsRfe(r) == Done(r) /\ r.h = "op_cop0" /\ (r.ins[1] \div 32) % 32 = 16

(* C19: for every Status value s, an exception followed by RFE gives a     *)
(* Status whose bits [3:0] are s[3:0] and whose bits [31:6] are s[31:6];   *)
(* bits [5:4], the oldest entry of the stack, are all that may differ. In  *)
(* between, the exception has moved s[3:0] to bits [5:2] and cleared bits  *)
(* [1:0].                                                                  *)
C19_ModeStackRoundTrip ==
    /\ Raised(last) =>
          sr = <<last.old.sr[1],
                 (last.old.sr[2] - (last.old.sr[2] % 64)) + 4 * (last.old.sr[2] % 16)>>
    /\ (Raised(prev) /\ IsRfe(last)) =>
          /\ sr[1] = prev.old.sr[1]
          /\ sr[2] \div 64 = prev.old.sr[2] \div 64
          /\ sr[2] % 16 = prev.old.sr[2] % 16

(* SYSCALL then RFE from Status 0x0040003f: bits [3:0] are back, the       *)
(* oldest entry is lost                                                    *)
C19_Witness ==
    /\ Raised(prev) /\ IsRfe(last)
    /\ prev.old.sr = <<64, 63>>
    /\ last.old.sr = <<64, 60>>
    /\ sr = <<64, 15>>
----------------------------------------------------------------------------
(* Stores of r2 as a byte, a halfword and a word, loads of each width from *)
(* the same addresses into r3, and a reader of r3. r2 starts with a value  *)
(* whose low byte and low halfword are each negative or not as signed      *)
(* numbers, as earlier instructions (LUI, ORI) can leave it                *)

StoreValues == { <<4660, 22136>>, <<57005, 48879>>, <<0, 32895>>, <<0, 4736>> }

ProgTrip ==
    { SB(2, 0, 5), SH(2, 0, 6), SW(2, 0, 8),
      LB(3, 0, 5), LBU(3, 0, 5), LH(3, 0, 6), LHU(3, 0, 6), LW(3, 0, 8),
      ADDU(4, 3, 0) }

InitTrip ==
    /\ pc = <<49088, 0>> /\ next_pc = <<49088, 4>> /\ current_pc = <<0, 0>>
    /\ \E v \in StoreValues :
          regs = [i \in 0 .. 31 |-> CASE i = 0 -> <<0, 0>> [] i = 2 -> v
                                      [] OTHER -> <<57005, 48879>>]
    /\ out_regs = regs
    /\ hi = <<57005, 48879>> /\ lo = <<57005, 48879>>
    /\ icache = << >>
    /\ sr = <<0, 0>> /\ cause = <<0, 0>> /\ epc = <<0, 0>>
    /\ load = <<0, <<0, 0>>>>
    /\ branch = FALSE /\ delay_slot = FALSE
    /\ tk = TimeKeeper_new
    /\ mem = << >>
    /\ cc = [icache_enabled |-> FALSE, tag_test_mode |-> FALSE]
    /\ fatal = FALSE
    /\ trace = << >>
    /\ last = NoStep /\ prev = NoStep
    /\ calls = << >>
    /\ steps = 0

StoreStep == steps < MaxTripSteps /\ Store(ProgTrip)
ReloadStep == steps < MaxTripSteps /\ Load(ProgTrip)
ReadStep  == steps < MaxTripSteps /\ Arith(ProgTrip)

NextTrip == StoreStep \/ ReloadStep \/ ReadStep

SpecTrip == InitTrip /\ [][NextTrip]_vars

(* the load h reads back what the store g has written: same width *)
SameWidth(g, h) ==
    \/ g = "op_sb" /\ h \in {"op_lb", "op_lbu"}
    \/ g = "op_sh" /\ h \in {"op_lh", "op_lhu"}
    \/ g = "op_sw" /\ h = "op_lw"

(* the stored register value v, truncated to the width of the load h and   *)
(* sign- or zero-extended as h does                                        *)
Delivered(h, v) ==
    CASE h = "op_lb"  -> IF v[2] % 256 >= 128 THEN <<65535, 65280 + (v[2] % 256)>>
                                              ELSE <<0, v[2] % 256>>
      [] h = "op_lbu" -> <<0, v[2] % 256>>
      [] h = "op_lh"  -> IF v[2] >= 32768 THEN <<65535, v[2]>> ELSE <<0, v[2]>>
      [] h = "op_lhu" -> <<0, v[2]>>
      [] h = "op_lw"  -> v

(* C20: with the cache not isolated, a store (SB, SH, SW) to an aligned    *)
(* address directly followed by a load of the same width from the same     *)
(* address leaves pending, for the destination of the load, the stored     *)
(* value truncated to the width, sign-extended by LB and LH and            *)
(* zero-extended by LBU and LHU; the instruction after the load, unless it *)
(* writes or loads that register itself, leaves the register holding it.   *)
C20_StoreLoadRoundTrip ==
    /\ (/\ Done(prev) /\ Done(last) /\ SameWidth(prev.h, last.h)
        /\ ~cache_isolated(prev.old.sr)
        /\ AccessAddr(prev) = AccessAddr(last)) =>
          load = <<last.ins[1] % 32, Delivered(last.h, prev.src[2])>>
    /\ (/\ Done(prev) /\ prev.h \in PlainLoads /\ Executed(last)
        /\ prev.ins[1] % 32 # 0
        /\ prev.ins[1] % 32 \notin last.wrote
        /\ load[1] # prev.ins[1] % 32) =>
          regs[prev.ins[1] % 32] = last.old.load[2]

(* SH r2, 6(r0) with r2 = 0x0000807f, then LH r3, 6(r0), then the reader:  *)
(* r3 holds 0xffff807f                                                     *)
C20_Witness ==
    /\ Done(prev) /\ prev.ins = LH(3, 0, 6)
    /\ Done(last) /\ last.ins = ADDU(4, 3, 0)
    /\ regs[2] = <<0, 32895>>
    /\ mem[<<0, 4>>] = <<32895, 47768>>
    /\ regs[3] = <<65535, 32895>>
----------------------------------------------------------------------------
(* SWL and SWR of r2 at every byte offset of the words at 0 and 4, LW of   *)
(* those words and a reader; r2 starts with one of the store values        *)

ProgMerge ==
    { SWL(2, 0, 0), SWL(2, 0, 1), SWL(2, 0, 2), SWL(2, 0, 3),
      SWR(2, 0, 4), SWR(2, 0, 5), SWR(2, 0, 6), SWR(2, 0, 7),
      LW(4, 0, 0), LW(4, 0, 4), ADDU(5, 4, 0) }

MergeStep    == steps < MaxTripSteps /\ StoreUnaligned(ProgMerge)
ReadBackStep == steps < MaxTripSteps /\ Load(ProgMerge)
UseStep      == steps < MaxTripSteps /\ Arith(ProgMerge)

NextMerge == MergeStep \/ ReadBackStep \/ UseStep

SpecMerge == InitTrip /\ [][NextMerge]_vars

(* the word at the aligned address a in the memory mm *)
WordIn(mm, a) ==
    IF a \in DOMAIN mm THEN mm[a]
    ELSE IF (a[2] \div 4) % 2 = 0 THEN <<30292, 12816>> ELSE <<65244, 47768>>

(* the word SWL (h = "op_swl") or SWR at byte offset k makes of the memory *)
(* word m and the register value v: SWL replaces the low k + 1 bytes of m  *)
(* by the top k + 1 bytes of v, SWR the bytes of m from k up by the low    *)
(* 4 - k bytes of v                                                        *)
Merged(h, m, v, k) ==
    LET B(j) == IF h = "op_swl"
                THEN IF j <= k THEN WordByte(v, 3 - k + j) ELSE WordByte(m, j)
                ELSE IF j >= k THEN WordByte(v, j - k) ELSE WordByte(m, j)
    IN  FromBytes(B(0), B(1), B(2), B(3))

(* the word the SWL or SWR of step r leaves at its aligned address *)
MergedBy(r) ==
    Merged(r.h, WordIn(r.old.mem, Align4(AccessAddr(r))), r.src[2], AccessAddr(r)[2] % 4)

(* C21: SWL and SWR at effective address EA, with k = EA & 3, leave at     *)
(* EA & ~3 the old word m of that address merged with the register value   *)
(* v: (m & (0xffffff00 << 8k)) | (v >> (24 - 8k)) after SWL and            *)
(* (m & ((1 << 8k) - 1)) | (v << 8k) after SWR; no other word of memory    *)
(* changes, and LW at EA & ~3 right after reads exactly that word.         *)
C21_StoreMerge ==
    /\ (Done(last) /\ last.h \in {"op_swl", "op_swr"} /\ ~cache_isolated(last.old.sr)) =>
          /\ WordIn(mem, Align4(AccessAddr(last))) = MergedBy(last)
          /\ \A a \in DOMAIN mem \ {Align4(AccessAddr(last)), last.at} :
                mem[a] = WordIn(last.old.mem, a)
    /\ (/\ Done(prev) /\ prev.h \in {"op_swl", "op_swr"} /\ ~cache_isolated(prev.old.sr)
        /\ Done(last) /\ last.h = "op_lw"
        /\ AccessAddr(last) = Align4(AccessAddr(prev))) =>
          load = <<last.ins[1] % 32, MergedBy(prev)>>

(* SWL r2, 1(r0) with r2 = 0x12345678 on the word 0x76543210, then         *)
(* LW r4, 0(r0): 0x76541234 is on its way to r4                            *)
C21_Witness ==
    /\ Done(prev) /\ prev.ins = SWL(2, 0, 1) /\ prev.src[2] = <<4660, 22136>>
    /\ Done(last) /\ last.ins = LW(4, 0, 0)
    /\ load = <<4, <<30292, 4660>>>>
    /\ mem[<<0, 0>>] = <<30292, 4660>>
----------------------------------------------------------------------------
(* The TimeKeeper on its own: tick with the cycle counts the CPU charges   *)
(* and sync by the peripheral, in any order                                *)

(* Number of calls of tick and sync a run makes. *)
MaxTimeCalls == 6

(* tick(1), tick(3), tick(4): the costs fetch and execute charge *)
TickCycles == {1, 3, 4}

Tick ==
    /\ Len(calls) < MaxTimeCalls
    /\ \E cycles \in TickCycles :
          /\ tk' = tick([tk |-> tk], cycles).tk
          /\ calls' = Append(calls, [op |-> "tick", n |-> cycles])
    /\ UNCHANGED <<pc, next_pc, current_pc, regs, out_regs, hi, lo, icache, sr, cause, epc,
                   load, branch, delay_slot, mem, cc, fatal, trace, last, prev, steps>>

Sync ==
    /\ Len(calls) < MaxTimeCalls
    /\ tk' = sync(tk).tk
    /\ calls' = Append(calls, [op |-> "sync", n |-> sync(tk).delta])
    /\ UNCHANGED <<pc, next_pc, current_pc, regs, out_regs, hi, lo, icache, sr, cause, epc,
                   load, branch, delay_slot, mem, cc, fatal, trace, last, prev, steps>>

NextTime == Tick \/ Sync

SpecTime == Init /\ [][NextTime]_vars

(* the cycles ticked by the calls i .. j *)
RECURSIVE Ticked(_, _)
Ticked(i, j) ==
    IF i > j THEN 0
    ELSE (IF calls[j].op = "tick" THEN calls[j].n ELSE 0) + Ticked(i, j - 1)

(* the sum of what the syncs among the calls 1 .. j returned *)
RECURSIVE Returned(_)
Returned(j) ==
    IF j = 0 THEN 0
    ELSE (IF calls[j].op = "sync" THEN calls[j].n ELSE 0) + Returned(j - 1)

Syncs == {i \in 1 .. Len(calls) : calls[i].op = "sync"}

(* the sync before the call i, or 0 when i is the first *)
SyncBefore(i) ==
    LET before == {j \in Syncs : j < i}
    IN  IF before = {} THEN 0 ELSE CHOOSE j \in before : \A k \in before : k <= j

(* C22: sync returns the cycles ticked since the sync before it, or since  *)
(* creation when it is the first; a sync right after a sync returns 0; and *)
(* the values sync returned add up to the counter at the last sync, which  *)
(* is all the cycles ticked before it.                                     *)
C22_SyncDelta ==
    /\ \A i \in Syncs : calls[i].n = Ticked(SyncBefore(i) + 1, i)
    /\ \A i \in Syncs : (i > 1 /\ calls[i - 1].op = "sync") => calls[i].n = 0
    /\ Syncs # {} =>
          LET l == CHOOSE i \in Syncs : \A k \in Syncs : k <= i
          IN  /\ Returned(Len(calls)) = Ticked(1, l)
              /\ tk.last = Ticked(1, l)
    /\ tk.now = Ticked(1, Len(calls))

(* tick(3), tick(4), sync gives 7, sync again 0, tick(1), sync gives 1 *)
C22_Witness ==
    /\ Len(calls) = 6
    /\ [i \in 1 .. 6 |-> calls[i].n] = <<3, 4, 7, 0, 1, 1>>
    /\ [i \in 1 .. 6 |-> calls[i].op] = <<"tick", "tick", "sync", "sync", "tick", "sync">>
    /\ tk = [now |-> 8, last |-> 8]
----------------------------------------------------------------------------
(* The debugger forcing the PC between steps of a program of branches,     *)
(* jumps and traps                                                         *)

ProgForce == { BEQ(0, 0, 2), BNE(0, 0, 2), J(64), SYSCALL, ILLEGAL, NOP }

(* where the debugger sends the PC: 0xbfc00102, which is not a multiple of *)
(* 4; 0x80000080, 0x80000088 and 0x80001084, words 0, 2 and 1 of cache     *)
(* line 8 under two tags; and 0x00000088, word 2 of line 8 under tag 0     *)
ForceTargets ==
    { <<49088, 258>>, <<32768, 128>>, <<32768, 136>>, <<32768, 4228>>, <<0, 136>> }

(* cpu.force_pc(a), called between two steps *)
ForcePcTo(T) ==
    /\ ~fatal
    /\ \E a \in T :
          LET c == force_pc(Cpu, a)
          IN  /\ pc' = c.pc /\ next_pc' = c.next_pc /\ delay_slot' = c.delay_slot
              /\ last' = [NoStep EXCEPT !.kind = "force_pc", !.at = a, !.old = Cpu]
    /\ prev' = last
    /\ trace' = << >>
    /\ steps' = steps + 1
    /\ UNCHANGED <<current_pc, regs, out_regs, hi, lo, icache, sr, cause, epc, load,
                   branch, tk, mem, cc, fatal, calls>>

ForcePc == Running /\ ForcePcTo(ForceTargets)

NextForce ==
    \/ ForcePc \/ Branch(ProgForce) \/ Jump(ProgForce) \/ Trap(ProgForce)
    \/ Shift(ProgForce) \/ FetchFault

SpecForce == Init /\ [][NextForce]_vars

(* C23: right after force_pc(a), whatever ran before it, pc = a and        *)
(* next_pc = a + 4 (mod 2^32); the step after it runs the instruction at a *)
(* outside any delay slot: an exception it raises leaves EPC = a and bit   *)
(* 31 of Cause clear.                                                      *)
C23_ForcePc ==
    /\ last.kind = "force_pc" =>
          pc = last.at /\ next_pc = wrapping_add(last.at, <<0, 4>>)
    /\ (prev.kind = "force_pc" /\ last.kind \in {"exec", "fault"}) =>
          /\ last.at = prev.at
          /\ Raised(last) => epc = prev.at /\ cause[1] < 32768
----------------------------------------------------------------------------
(* Fetches through the I-cache: the cache enabled or not, in tag-test mode *)
(* or not, isolated or not; the debugger moves the PC into KSEG0 and KUSEG *)
(* and the program stores r0 at 0x88, which is word 2 of cache line 8      *)

ProgFetch == { NOP, SW(0, 0, 136) }

InitFetch ==
    /\ pc = <<49088, 0>> /\ next_pc = <<49088, 4>> /\ current_pc = <<0, 0>>
    /\ regs = [i \in 0 .. 31 |-> IF i = 0 THEN <<0, 0>> ELSE <<57005, 48879>>]
    /\ out_regs = regs
    /\ hi = <<57005, 48879>> /\ lo = <<57005, 48879>>
    /\ icache = << >>
    /\ sr \in {<<0, 0>>, <<1, 0>>} /\ cause = <<0, 0>> /\ epc = <<0, 0>>
    /\ load = <<0, <<0, 0>>>>
    /\ branch = FALSE /\ delay_slot = FALSE
    /\ tk = TimeKeeper_new
    /\ mem = << >>
    /\ cc \in [icache_enabled : BOOLEAN, tag_test_mode : BOOLEAN]
    /\ fatal = FALSE
    /\ trace = << >>
    /\ last = NoStep /\ prev = NoStep
    /\ calls = << >>
    /\ steps = 0

NextFetch ==
    \/ ForcePc \/ Shift(ProgFetch) \/ Store(ProgFetch) \/ Trap(ProgFetch) \/ FetchFault

SpecFetch == InitFetch /\ [][NextFetch]_vars

(* the step fetched an instruction *)
Fetching(r) == r.kind \in {"exec", "panic"}

Kseg1(p) == p[1] \div 8192 = 5

(* the fetch of step r went through the cache *)
CachedFetch(r) == Fetching(r) /\ ~Kseg1(r.at) /\ r.old.cc.icache_enabled

LineIndex(p) == (p[2] \div 16) % 256
WordIndex(p) == (p[2] \div 4) % 4
TagOf(p)     == <<p[1], p[2] - (p[2] % 4096)>>

(* cache line n before step r, and now *)
LineBefore(r, n) == IF n \in DOMAIN r.old.icache THEN r.old.icache[n] ELSE ICacheLine_new
LineNow(n)       == IF n \in DOMAIN icache THEN icache[n] ELSE ICacheLine_new

(* the addresses the last step loaded instructions from, in order *)
FetchLoads ==
    LET ld == SelectSeq(trace, LAMBDA e : e.ev = "load_instruction")
    IN  [i \in 1 .. Len(ld) |-> ld[i].addr]

(* the word the Interconnect held at address a when step r fetched; the    *)
(* word is known when an earlier step touched it or this step stored none  *)
Held(r, a, v) ==
    /\ a \in DOMAIN r.old.mem => v = r.old.mem[a]
    /\ (a \notin DOMAIN r.old.mem /\ ~Event("store")) => v = mem[a]

(* C24: a fetch through the cache at pc, w being (pc >> 2) & 3, loads from *)
(* the Interconnect exactly when the tag of the line differs from          *)
(* pc & 0xfffff000 or its valid index is above w. After such a miss the    *)
(* tag of the line is pc & 0xfffff000, its valid index is w, its words     *)
(* w .. 3 are the Interconnect's words at pc, pc + 4, ..., the words below *)
(* w are as before, and the fetch delivers word w. (Seen at the end of the *)
(* step, so for steps whose instruction does no cache maintenance.)        *)
C24_Refill ==
    (CachedFetch(last) /\ ~Event("cache_maintenance")) =>
        LET p   == last.at
            w   == WordIndex(p)
            old == LineBefore(last, LineIndex(p))
            new == LineNow(LineIndex(p))
        IN  /\ (FetchLoads # << >>) <=> (tag(old) # TagOf(p) \/ valid_index(old) > w)
            /\ FetchLoads # << >> =>
                  /\ FetchLoads = [i \in 1 .. 4 - w |-> Plus(p, 4 * (i - 1))]
                  /\ tag(new) = TagOf(p)
                  /\ valid_index(new) = w
                  /\ \A j \in w .. 3 : Held(last, Plus(p, 4 * (j - w)), instruction(new, j))
                  /\ \A j \in 0 .. w - 1 : instruction(new, j) = instruction(old, j)
                  /\ last.ins = instruction(new, w)

(* line 8 was filled from word 2 on at 0x80000088; the fetch at 0x80000080 *)
(* finds the tag right and the valid index too high, and fills all of it   *)
C24_Witness ==
    /\ CachedFetch(last) /\ ~Event("cache_maintenance")
    /\ last.at = <<32768, 128>>
    /\ tag(LineBefore(last, 8)) = <<32768, 0>>
    /\ valid_index(LineBefore(last, 8)) = 2
    /\ Len(FetchLoads) = 4
    /\ valid_index(LineNow(8)) = 0
    /\ instruction(LineNow(8), 0) = last.ins

(* C25: a fetch at a pc in KSEG1, or with the I-cache disabled, loads the  *)
(* instruction from the Interconnect at pc, once, and leaves every line of *)
(* the I-cache as it was; a fetch through the cache that hits loads        *)
(* nothing from the Interconnect.                                          *)
C25_Uncached ==
    /\ (Fetching(last) /\ (Kseg1(last.at) \/ ~last.old.cc.icache_enabled)) =>
          /\ FetchLoads = <<last.at>>
          /\ Held(last, last.at, last.ins)
          /\ ~Event("cache_maintenance") => icache = last.old.icache
    /\ (/\ CachedFetch(last)
        /\ tag(LineBefore(last, LineIndex(last.at))) = TagOf(last.at)
        /\ valid_index(LineBefore(last, LineIndex(last.at))) <= WordIndex(last.at)) =>
          /\ FetchLoads = << >>
          /\ last.ins = instruction(LineBefore(last, LineIndex(last.at)), WordIndex(last.at))

(* the cache is enabled and line 8 differs from its reset contents; a      *)
(* fetch in KSEG1 at 0xbfc00004 reads the Interconnect and leaves it so    *)
C25_Witness ==
    /\ Fetching(last) /\ Kseg1(last.at) /\ last.old.cc.icache_enabled
    /\ last.at = <<49088, 4>>
    /\ 8 \in DOMAIN icache /\ icache = last.old.icache
    /\ FetchLoads = <<last.at>>

(* the last step ran a store that went to cache maintenance: the cache was *)
(* isolated and enabled (the store is of the word 0, or the host aborts)   *)
Maintained ==
    /\ Done(last) /\ last.h = "op_sw" /\ Event("cache_maintenance")
    /\ cache_isolated(last.old.sr) /\ last.old.cc.icache_enabled

(* the fetch of the last step refilled cache line n *)
Refilled(n) == CachedFetch(last) /\ FetchLoads # << >> /\ LineIndex(last.at) = n

(* C26: a store of the word 0 with the cache isolated and enabled, at      *)
(* address addr, n being (addr >> 4) & 0xff: in tag-test mode line n keeps *)
(* its tag and words and gets a valid index above 3, and a fetch through   *)
(* the cache at a line with such a valid index misses and refills it;      *)
(* otherwise word (addr >> 2) & 3 of line n becomes the stored value and   *)
(* the tag and valid index of the line stay. No other line changes.        *)
C26_CacheMaintenance ==
    /\ Maintained =>
          LET addr == AccessAddr(last)
              n    == LineIndex(addr)
              old  == LineBefore(last, n)
              new  == LineNow(n)
          IN  /\ (last.old.cc.tag_test_mode /\ ~Refilled(n)) =>
                    /\ valid_index(new) > 3
                    /\ tag(new) = tag(old)
                    /\ new.line = old.line
              /\ (~last.old.cc.tag_test_mode /\ ~Refilled(n)) =>
                    /\ new.line = [old.line EXCEPT ![WordIndex(addr) + 1] = last.src[2]]
                    /\ new.tag_valid = old.tag_valid
              /\ \A m \in 0 .. 255 :
                    (m # n /\ ~Refilled(m)) => LineNow(m) = LineBefore(last, m)
              /\ mem = last.old.mem \/ FetchLoads # << >>
    /\ (CachedFetch(last) /\ valid_index(LineBefore(last, LineIndex(last.at))) > 3) =>
          /\ FetchLoads # << >>
          /\ ~Maintained => valid_index(LineNow(LineIndex(last.at))) = WordIndex(last.at)

(* SW r0, 0x88(r0), fetched at 0x80000088 in tag-test mode, invalidates    *)
(* line 8, which its own fetch had filled from word 2 on; the fetch at     *)
(* 0x8000008c that follows finds the tag right and still refills           *)
C26_Witness ==
    /\ Done(prev) /\ prev.h = "op_sw" /\ prev.at = <<32768, 136>>
    /\ prev.old.cc.tag_test_mode /\ cache_isolated(prev.old.sr) /\ prev.old.cc.icache_enabled
    /\ CachedFetch(last) /\ last.at = <<32768, 140>>
    /\ valid_index(LineBefore(last, 8)) = 6 /\ tag(LineBefore(last, 8)) = <<32768, 0>>
    /\ FetchLoads = <<<<32768, 140>>>>
    /\ valid_index(LineNow(8)) = 3

(* what the fetch of step r costs: 4 cycles outside the cache, none for a  *)
(* hit, 3 and one per word loaded for a miss                               *)
FetchCost(r) ==
    LET w  == WordIndex(r.at)
        ln == LineBefore(r, LineIndex(r.at))
    IN  IF ~CachedFetch(r) THEN 4
        ELSE IF tag(ln) = TagOf(r.at) /\ valid_index(ln) <= w THEN 0
        ELSE 3 + (4 - w)

(* C27: a step that runs an instruction advances the cycle counter by the  *)
(* cost of its fetch plus 1: 5 for an uncached fetch, 1 for a hit,         *)
(* 3 + (4 - w) + 1 for a miss at word w; a step that finds the PC          *)
(* misaligned does not advance it.                                         *)
C27_Cycles ==
    /\ last.kind = "exec"  => tk.now = last.old.tk.now + FetchCost(last) + 1
    /\ last.kind = "fault" => tk.now = last.old.tk.now
    /\ last.kind \in {"exec", "fault"} => tk.last = last.old.tk.last

(* an uncached step, then a miss at word 2 of line 8 and a hit at word 3:  *)
(* 5 + 6 + 1 cycles                                                        *)
C27_Witness ==
    /\ last.kind = "exec" /\ last.at = <<32768, 140>> /\ FetchCost(last) = 0
    /\ prev.kind = "exec" /\ prev.at = <<32768, 136>> /\ FetchCost(prev) = 5
    /\ tk.now = 12
----------------------------------------------------------------------------
(* Exceptions one after the other, from every Status value of SpecStatus:  *)
(* the word at the handler may itself be SYSCALL or an illegal instruction *)

(* Number of steps of a run of exceptions on exceptions. *)
MaxNestSteps == 3

NestStep   == steps < MaxNestSteps /\ Trap(ProgStatus)
UnnestStep == steps < MaxNestSteps /\ Cop0(ProgStatus)
RestStep   == steps < MaxNestSteps /\ Shift(ProgStatus)

NextNest == NestStep \/ UnnestStep \/ RestStep

SpecNest == InitStatus /\ [][NextNest]_vars

(* C28: an exception leaves in bits [5:0] of Status their old value        *)
(* shifted left by 2 and cut to 6 bits, and bits [31:6] as they were; so   *)
(* bits [1:0] are 0 right after any exception, and bits [5:0] are 0 after  *)
(* the third exception with no RFE in between.                             *)
C28_EnterException ==
    /\ Raised(last) =>
          /\ sr[2] % 64 = ((last.old.sr[2] % 64) * 4) % 64
          /\ sr[2] \div 64 = last.old.sr[2] \div 64
          /\ sr[1] = last.old.sr[1]
          /\ sr[2] % 4 = 0
    /\ (Raised(last) /\ last.run >= 3) => sr[2] % 64 = 0

(* three exceptions in a row from Status 0xffffffff: bits [5:0] go 0x3f,   *)
(* 0x3c, 0x30, 0x00 and the rest stays                                     *)
C28_Witness ==
    /\ Raised(last) /\ last.run = 3
    /\ prev.old.sr = <<65535, 65532>> /\ last.old.sr = <<65535, 65520>>
    /\ sr = <<65535, 65472>>
----------------------------------------------------------------------------
(* Moves to and from coprocessor 0: r1 and r2 hold Status values with      *)
(* the cache isolated (bit 16) and not, both with BEV (bit 22) so that the *)
(* handler is in KSEG1; SYSCALL gives Cause and EPC a value                *)

ProgMove ==
    { MTC0(1, 12), MTC0(2, 12), MFC0(3, 12), MFC0(3, 13), MFC0(3, 14),
      SW(0, 0, 16), SYSCALL, ADDU(3, 0, 0), ADDU(4, 3, 0) }

InitMove ==
    /\ pc = <<49088, 0>> /\ next_pc = <<49088, 4>> /\ current_pc = <<0, 0>>
    /\ regs = [i \in 0 .. 31 |-> CASE i = 0 -> <<0, 0>> [] i = 1 -> <<65, 0>> [] i = 2 -> <<64, 0>>
                                   [] OTHER -> <<57005, 48879>>]
    /\ out_regs = regs
    /\ hi = <<57005, 48879>> /\ lo = <<57005, 48879>>
    /\ icache = << >>
    /\ sr = <<64, 0>> /\ cause = <<0, 0>> /\ epc = <<0, 0>>
    /\ load = <<0, <<0, 0>>>>
    /\ branch = FALSE /\ delay_slot = FALSE
    /\ tk = TimeKeeper_new
    /\ mem = << >>
    /\ cc \in [icache_enabled : BOOLEAN, tag_test_mode : BOOLEAN]
    /\ fatal = FALSE
    /\ trace = << >>
    /\ last = NoStep /\ prev = NoStep
    /\ calls = << >>
    /\ steps = 0

NextMove == Cop0(ProgMove) \/ Store(ProgMove) \/ Trap(ProgMove) \/ Arith(ProgMove)

SpecMove == InitMove /\ [][NextMove]_vars

(* the step r has run MFC0 of Status, Cause or EPC, or MTC0, to its end *)
IsMfc0(r) == Done(r) /\ r.h = "op_cop0" /\ cop_opcode(r.ins) = 0 /\ d(r.ins) \in {12, 13, 14}
IsMtc0(r) == Done(r) /\ r.h = "op_cop0" /\ cop_opcode(r.ins) = 4

(* the coprocessor 0 register the MFC0 of step r names, when r began *)
CopValue(r) ==
    CASE d(r.ins) = 12 -> r.old.sr
      [] d(r.ins) = 13 -> r.old.cause
      [] d(r.ins) = 14 -> r.old.epc

(* register i after step r has retired the load pending when it began *)
Retired(r, i) == IF r.old.load[1] = i /\ i # 0 THEN r.old.load[2] ELSE r.old.regs[i]

(* C29: MFC0 rt of cop0 register 12, 13 or 14 leaves (rt, value of Status, *)
(* Cause or EPC) pending and rt itself as it was; the instruction after it *)
(* reads that old rt, and rt holds the value once that instruction has     *)
(* run, unless it wrote rt itself. MTC0 to register 12 makes Status the    *)
(* register's value in the same step, and a store in the next step goes to *)
(* cache maintenance, not to memory, exactly when bit 16 of it is set.     *)
C29_CopMoves ==
    /\ IsMfc0(last) =>
          /\ load = <<t(last.ins), CopValue(last)>>
          /\ regs[t(last.ins)] = Retired(last, t(last.ins))
          /\ sr = last.old.sr /\ cause = last.old.cause /\ epc = last.old.epc
    /\ (IsMfc0(prev) /\ last.kind = "exec") =>
          /\ s(last.ins) = t(prev.ins) => last.src[1] = Retired(prev, t(prev.ins))
          /\ t(last.ins) = t(prev.ins) => last.src[2] = Retired(prev, t(prev.ins))
          /\ t(prev.ins) \notin last.wrote => regs[t(prev.ins)] = CopValue(prev)
    /\ (IsMtc0(last) /\ d(last.ins) = 12) => sr = last.src[2]
    /\ (IsMtc0(prev) /\ d(prev.ins) = 12 /\ Fetching(last) /\ last.h = "op_sw") =>
          /\ Event("store") <=> prev.src[2][1] % 2 = 0
          /\ prev.src[2][1] % 2 = 1 => (Event("cache_maintenance") \/ fatal) /\ MemKept

(* after SYSCALL, MFC0 r3, cop0r13 and ADDU r4, r3, r0: the ADDU has read  *)
(* the old r3 and r3 now holds Cause                                       *)
C29_Witness ==
    /\ IsMfc0(prev) /\ prev.ins = MFC0(3, 13) /\ CopValue(prev) = <<0, 32>>
    /\ Done(last) /\ last.ins = ADDU(4, 3, 0)
    /\ last.src[1] = <<57005, 48879>> /\ regs[4] = <<57005, 48879>>
    /\ regs[3] = <<0, 32>>
----------------------------------------------------------------------------
(* MTC0 of r0 (zero) and of r1 (0xdeadbeef) to each of the 32 registers of *)
(* coprocessor 0, at reset and after a SYSCALL                             *)

(* Number of steps of a run of moves to coprocessor 0. *)
MaxMoveSteps == 2

ProgMtc == {MTC0(rt, rd) : rt \in {0, 1}, rd \in 0 .. 31} \cup {SYSCALL, NOP}

WriteStep == steps < MaxMoveSteps /\ Cop0(ProgMtc)
EnterStep == steps < MaxMoveSteps /\ Trap(ProgMtc)
WaitStep  == steps < MaxMoveSteps /\ Shift(ProgMtc)

NextMtc == WriteStep \/ EnterStep \/ WaitStep

SpecMtc == Init /\ [][NextMtc]_vars

(* the cop0 registers MTC0 accepts a zero for: the breakpoint registers    *)
(* and Cause                                                               *)
ZeroOnly == {3, 5, 6, 7, 9, 11, 13}

(* the last step has fetched MTC0 and run it, to its end or to an abort *)
Mtc0Ran == Fetching(last) /\ last.h = "op_cop0" /\ cop_opcode(last.ins) = 4

(* C30: MTC0 of a non-zero value to cop0 register 3, 5, 6, 7, 9, 11 or 13  *)
(* aborts; of zero it changes nothing of the CPU beyond what every step    *)
(* does (the PC moves on, the pending load is retired): Status, Cause,     *)
(* EPC, HI, LO, the registers, the I-cache and memory stay. MTC0 to any    *)
(* register other than those and 12 aborts whatever the value.             *)
C30_Mtc0 ==
    /\ (Mtc0Ran /\ d(last.ins) \in ZeroOnly /\ last.src[2] # <<0, 0>>) => fatal
    /\ (Mtc0Ran /\ d(last.ins) \notin ZeroOnly \cup {12}) => fatal
    /\ (Mtc0Ran /\ d(last.ins) \in ZeroOnly /\ last.src[2] = <<0, 0>>) =>
          /\ ~fatal /\ last.exc = 0
          /\ sr = last.old.sr /\ cause = last.old.cause /\ epc = last.old.epc
          /\ hi = last.old.hi /\ lo = last.old.lo
          /\ \A i \in 0 .. 31 : regs[i] = Retired(last, i)
          /\ load = <<0, <<0, 0>>>> /\ ~branch
          /\ icache = last.old.icache /\ MemKept
          /\ pc = last.old.next_pc /\ next_pc = wrapping_add(pc, <<0, 4>>)

(* after SYSCALL Cause is 0x20; MTC0 r0, cop0r13 leaves it so *)
C30_Witness ==
    /\ Mtc0Ran /\ last.ins = MTC0(0, 13)
    /\ last.old.cause = <<0, 32>> /\ cause = <<0, 32>>
    /\ ~fatal
----------------------------------------------------------------------------
(* The blend of LWL and LWR as masks and shifts, under SpecUnaligned *)

(* C31: with cur the output value of rt (the load in flight to rt when     *)
(* there is one, rt otherwise), word the memory word at EA & ~3 and        *)
(* k = EA & 3, LWL leaves (cur & (0x00ffffff >> 8k)) | (word << (24 - 8k)) *)
(* pending for rt and LWR (cur & ~(0xffffffff >> 8k)) | (word >> 8k), for  *)
(* k = 0 .. 3; rt itself is not written by the step.                       *)
C31_BlendTable ==
    (Done(last) /\ last.h \in {"op_lwl", "op_lwr"}) =>
        LET rt   == t(last.ins)
            ea   == UnalignedAddr(last)
            k    == ea[2] % 4
            cur  == IF rt = 0 THEN <<0, 0>> ELSE Retired(last, rt)
            word == WordIn(last.old.mem, <<ea[1], ea[2] - k>>)
            v    == IF last.h = "op_lwl"
                    THEN Or32(And32(cur, Shr(<<255, 65535>>, 8 * k)), Shl(word, 24 - 8 * k))
                    ELSE Or32(And32(cur, Not32(Shr(<<65535, 65535>>, 8 * k))), Shr(word, 8 * k))
        IN  /\ load = <<rt, v>>
            /\ regs[rt] = cur
            /\ (last.h = "op_lwl" /\ k = 3) => load[2] = word
            /\ (last.h = "op_lwr" /\ k = 0) => load[2] = word

(* LWL r1, 5(r0) at reset: r1 is 0xdeadbeef, the word at 4 is 0xfedcba98,  *)
(* and 0xba98beef is left pending while r1 stays                           *)
C31_Witness ==
    /\ Done(last) /\ last.ins = LWL(1, 0, 5) /\ steps = 1
    /\ load = <<1, <<47768, 48879>>>>
    /\ regs[1] = <<57005, 48879>>
----------------------------------------------------------------------------
(* DIV and DIVU of r1 by r2, from every pair of the operand values: 0, 1,  *)
(* 2, 7, 100000, i32::MAX, i32::MIN, -1, -2, -7                            *)

DivValues ==
    { <<0, 0>>, <<0, 1>>, <<0, 2>>, <<0, 7>>, <<1, 34464>>, <<32767, 65535>>,
      <<32768, 0>>, <<65535, 65535>>, <<65535, 65534>>, <<65535, 65529>> }

ProgDiv == { DIV(1, 2), DIVU(1, 2), DIV(2, 1), DIVU(2, 1) }

InitDiv ==
    /\ pc = <<49088, 0>> /\ next_pc = <<49088, 4>> /\ current_pc = <<0, 0>>
    /\ \E a \in DivValues, b \in DivValues :
          regs = [i \in 0 .. 31 |-> CASE i = 0 -> <<0, 0>> [] i = 1 -> a [] i = 2 -> b
                                      [] OTHER -> <<57005, 48879>>]
    /\ out_regs = regs
    /\ hi = <<57005, 48879>> /\ lo = <<57005, 48879>>
    /\ icache = << >>
    /\ sr = <<0, 0>> /\ cause = <<0, 0>> /\ epc = <<0, 0>>
    /\ load = <<0, <<0, 0>>>>
    /\ branch = FALSE /\ delay_slot = FALSE
    /\ tk = TimeKeeper_new
    /\ mem = << >>
    /\ cc = [icache_enabled |-> FALSE, tag_test_mode |-> FALSE]
    /\ fatal = FALSE
    /\ trace = << >>
    /\ last = NoStep /\ prev = NoStep
    /\ calls = << >>
    /\ steps = 0

DivideStep == steps < MaxArithSteps /\ MulDiv(ProgDiv)

NextDiv == DivideStep

SpecDiv == InitDiv /\ [][NextDiv]_vars

(* the word a as an i32 *)
Signed(a) == SignedHi(a) * 65536 + a[2]

(* q and r are the quotient, truncated toward zero, and the remainder of   *)
(* the i32 n by the i32 dv: n = q * dv + r, r is smaller than dv in size   *)
(* and has the sign of n                                                   *)
SignedDivision(n, dv, q, r) ==
    /\ Signed(n) = Signed(q) * Signed(dv) + Signed(r)
    /\ IF Signed(dv) > 0 THEN Signed(r) < Signed(dv) /\ 0 - Signed(r) < Signed(dv)
                         ELSE Signed(r) > Signed(dv) /\ 0 - Signed(r) > Signed(dv)
    /\ Signed(r) = 0 \/ (Signed(r) < 0) = (Signed(n) < 0)

(* the same of the u32 n by the u32 dv: q * dv fits a word, n = q * dv + r *)
(* and r < dv                                                              *)
UnsignedDivision(n, dv, q, r) ==
    LET prod == MulU64(q, dv)
    IN  /\ prod[1] = <<0, 0>>
        /\ wrapping_add(prod[2], r) = n /\ ~LtU(n, prod[2])
        /\ LtU(r, dv)

(* C32: DIV and DIVU raise nothing and do not abort, whatever the          *)
(* operands. DIV by 0 leaves HI = dividend and LO = 0xffffffff for a       *)
(* dividend >= 0, 1 otherwise; DIV of 0x80000000 by -1 leaves HI = 0 and   *)
(* LO = 0x80000000; any other DIV leaves the remainder in HI and the       *)
(* quotient truncated toward zero in LO. DIVU by 0 leaves HI = dividend    *)
(* and LO = 0xffffffff, any other DIVU remainder and quotient. No general  *)
(* register changes.                                                       *)
C32_Division ==
    (Fetching(last) /\ last.h \in {"op_div", "op_divu"}) =>
        LET n  == last.src[1]
            dv == last.src[2]
        IN  /\ last.kind = "exec" /\ last.exc = 0 /\ ~fatal
            /\ \A i \in 0 .. 31 : regs[i] = Retired(last, i)
            /\ last.h = "op_div" =>
                  CASE dv = <<0, 0>> ->
                           hi = n /\ lo = (IF n[1] < 32768 THEN <<65535, 65535>> ELSE <<0, 1>>)
                    [] n = <<32768, 0>> /\ dv = <<65535, 65535>> ->
                           hi = <<0, 0>> /\ lo = <<32768, 0>>
                    [] OTHER -> SignedDivision(n, dv, lo, hi)
            /\ last.h = "op_divu" =>
                  IF dv = <<0, 0>> THEN hi = n /\ lo = <<65535, 65535>>
                  ELSE UnsignedDivision(n, dv, lo, hi)

(* DIV of -7 by 2: quotient -3, remainder -1 *)
C32_Witness ==
    /\ Done(last) /\ last.h = "op_div"
    /\ last.src = <<<<65535, 65529>>, <<0, 2>>>>
    /\ lo = <<65535, 65533>> /\ hi = <<65535, 65535>>
----------------------------------------------------------------------------
(* Jumps: r1 and r2 hold addresses, r31 none; the jumps run on their own,  *)
(* in the delay slot of a taken branch or of another jump, and after a     *)
(* load into the register they jump through                                *)

ProgJump ==
    { J(64), JAL(32), JR(1), JR(31), JALR(1, 1), JALR(2, 1), JALR(31, 2), JALR(0, 2),
      BEQ(0, 0, 2), LW(1, 0, 0), NOP }

InitJump ==
    /\ pc = <<49088, 0>> /\ next_pc = <<49088, 4>> /\ current_pc = <<0, 0>>
    /\ regs = [i \in 0 .. 31 |-> CASE i = 0 -> <<0, 0>> [] i = 1 -> <<49088, 64>>
                                   [] i = 2 -> <<32768, 256>> [] OTHER -> <<57005, 48879>>]
    /\ out_regs = regs
    /\ hi = <<57005, 48879>> /\ lo = <<57005, 48879>>
    /\ icache = << >>
    /\ sr = <<0, 0>> /\ cause = <<0, 0>> /\ epc = <<0, 0>>
    /\ load = <<0, <<0, 0>>>>
    /\ branch = FALSE /\ delay_slot = FALSE
    /\ tk = TimeKeeper_new
    /\ mem = << >>
    /\ cc = [icache_enabled |-> FALSE, tag_test_mode |-> FALSE]
    /\ fatal = FALSE
    /\ trace = << >>
    /\ last = NoStep /\ prev = NoStep
    /\ calls = << >>
    /\ steps = 0

NextJump ==
    \/ Jump(ProgJump) \/ Branch(ProgJump) \/ Load(ProgJump) \/ Shift(ProgJump) \/ FetchFault

SpecJump == InitJump /\ [][NextJump]_vars

(* (p & 0xf0000000) | (imm_jump << 2), from the bits of the word *)
JumpTarget(p, ins) ==
    <<(p[1] \div 4096) * 4096 + (ins[1] % 1024) * 4 + (ins[2] \div 16384), (ins[2] % 16384) * 4>>

(* C33: J and JAL set next_pc to (pc & 0xf0000000) | (imm_jump << 2), pc    *)
(* being the address of the delay-slot instruction; JR and JALR set it to  *)
(* the value reg[rs] had before the instruction, also when rd = rs. JAL    *)
(* leaves in r31 and JALR in reg[rd] the value next_pc had before the      *)
(* jump: the address of the instruction after the delay slot, which is the *)
(* jump's address + 8 when the jump is not in the delay slot of a taken    *)
(* branch.                                                                 *)
C33_Jumps ==
    (Done(last) /\ last.h \in {"op_j", "op_jal", "op_jr", "op_jalr"}) =>
        LET rs   == s(last.ins)
            rd   == d(last.ins)
            link == wrapping_add(last.old.next_pc, <<0, 4>>)
        IN  /\ branch
            /\ last.h \in {"op_j", "op_jal"} => next_pc = JumpTarget(pc, last.ins)
            /\ last.h \in {"op_jr", "op_jalr"} => next_pc = last.old.regs[rs]
            /\ last.h = "op_jal" => regs[31] = link
            /\ (last.h = "op_jalr" /\ rd # 0) => regs[rd] = link
            /\ ~last.old.branch => link = wrapping_add(last.at, <<0, 8>>)
            /\ last.old.pc = last.at /\ pc = last.old.next_pc

(* JALR r1, r1 in the delay slot of a taken BEQ: the jump goes to the old  *)
(* r1 and r1 holds the address after the branch target                     *)
C33_Witness ==
    /\ Done(last) /\ last.ins = JALR(1, 1) /\ Done(prev) /\ prev.ins = BEQ(0, 0, 2)
    /\ next_pc = <<49088, 64>> /\ regs[1] = <<49088, 16>>
    /\ last.at = <<49088, 4>>
----------------------------------------------------------------------------
(* The TimeKeeper under tick and sync calls from outside, between the      *)
(* steps of a CPU running NOPs from uncached memory                        *)

MaxClockCalls == 3
MaxClockSteps == 2

ClockTick == Len(calls) < MaxClockCalls /\ Tick
ClockSync == Len(calls) < MaxClockCalls /\ Sync
ClockStep == steps < MaxClockSteps /\ Shift({NOP})

NextClock == ClockTick \/ ClockSync \/ ClockStep

SpecClock == Init /\ [][NextClock]_vars

(* the step is a call of sync *)
SyncCall == Len(calls') = Len(calls) + 1 /\ calls'[Len(calls')].op = "sync"

(* C34: the cycle counter never decreases, whatever the sequence of tick,  *)
(* sync and CPU steps, and sync leaves it as it is; the timesheet's last   *)
(* is at most now in every reachable state, so that the subtraction in     *)
(* sync never goes below zero.                                             *)
C34_Monotonic ==
    /\ [](tk.last <= tk.now)
    /\ [](\A i \in 1 .. Len(calls) : calls[i].n >= 0)
    /\ [][tk'.now >= tk.now /\ (SyncCall => tk'.now = tk.now)]_vars

(* tick, sync, a CPU step (4 cycles of fetch and 1 of execution), sync:    *)
(* the second sync returns the 5 cycles of the step                        *)
C34_Witness ==
    /\ Len(calls) = 3 /\ steps = 1 /\ Done(last)
    /\ calls[1].op = "tick" /\ calls[2].op = "sync" /\ calls[3] = [op |-> "sync", n |-> 5]
    /\ tk.last = tk.now /\ tk.now = calls[1].n + 5
----------------------------------------------------------------------------
(* The debugger's hooks: loads and stores of every width, aligned and not, *)
(* with the cache isolated and not, fetched from uncached memory, through  *)
(* the cache, and from a misaligned PC                                     *)

MaxHookSteps == 2

ProgHook ==
    { LW(3, 0, 4), LW(3, 0, 2), LH(3, 0, 1), LWR(3, 0, 5),
      SW(0, 0, 4), SW(0, 0, 6), SWL(0, 0, 5) }

(* a misaligned address, and the last word of a cache line in KSEG0 *)
HookTargets == { <<49088, 258>>, <<32768, 140>> }

HookLoad    == steps < MaxHookSteps /\ Load(ProgHook)
HookPartial == steps < MaxHookSteps /\ LoadUnaligned(ProgHook)
HookStore   == steps < MaxHookSteps /\ Store(ProgHook)
HookMerge   == steps < MaxHookSteps /\ StoreUnaligned(ProgHook)
HookForce   == steps < MaxHookSteps /\ ForcePcTo(HookTargets)
HookFault   == steps < MaxHookSteps /\ FetchFault

NextHook == HookLoad \/ HookPartial \/ HookStore \/ HookMerge \/ HookForce \/ HookFault

SpecHook == InitFetch /\ [][NextHook]_vars

(* the events of the last step that are calls of the debugger *)
Hooks == {i \in DOMAIN trace : trace[i].ev \in {"pc_change", "memory_read", "memory_write"}}

(* event i of the last step is e at address a *)
EventAt(i, e, a) == i \in DOMAIN trace /\ trace[i] = [ev |-> e, addr |-> a]

(* C35: every step calls pc_change once, before anything else: the fetch,  *)
(* the alignment fault or an access of the Interconnect. memory_read(addr) *)
(* comes right before each data load and memory_write(addr) right before   *)
(* each data store, the ones that go to cache maintenance included. No     *)
(* hook is called for the fetch, nor for a load or store that raises an    *)
(* address error.                                                          *)
C35_HookOrder ==
    (last.kind \in {"exec", "panic", "fault"}) =>
        /\ EventAt(1, "pc_change", last.old.pc)
        /\ \A i \in DOMAIN trace : trace[i].ev = "pc_change" => i = 1
        /\ \A i \in DOMAIN trace :
              /\ trace[i].ev = "load" => EventAt(i - 1, "memory_read", trace[i].addr)
              /\ trace[i].ev \in {"store", "cache_maintenance"} =>
                    EventAt(i - 1, "memory_write", trace[i].addr)
              /\ trace[i].ev = "memory_read" => EventAt(i + 1, "load", trace[i].addr)
              /\ (trace[i].ev = "memory_write" /\ ~fatal) =>
                    \/ EventAt(i + 1, "store", trace[i].addr)
                    \/ EventAt(i + 1, "cache_maintenance", trace[i].addr)
        /\ last.kind = "fault" => Len(trace) = 1
        /\ last.exc \in {LoadAddressError, StoreAddressError} => Hooks = {1}

(* SWL at 5 fetched through the cache, which misses: pc_change, the refill *)
(* of the word, the hook and the load of the word at 4, the hook and the   *)
(* store at 5                                                              *)
C35_Witness ==
    /\ Done(last) /\ last.ins = SWL(0, 0, 5) /\ last.at = <<32768, 140>>
    /\ [i \in DOMAIN trace |-> trace[i].ev] =
          <<"pc_change", "load_instruction", "memory_read", "load", "memory_write", "store">>
    /\ trace[3].addr = <<0, 4>> /\ trace[5].addr = <<0, 5>>
----------------------------------------------------------------------------
(* C36: the instruction that runs first at the exception handler, the step *)
(* after any exception, a misaligned-PC fetch fault included, does not run *)
(* as a branch delay slot: delay_slot is false while it executes.          *)
C36_HandlerFirst ==
    (Fetching(last) /\ Raised(prev)) => (last.at = exception_handler(last.old.sr) /\ ~delay_slot)
----------------------------------------------------------------------------
(* C37: when the instruction in the delay slot of a load writes the        *)
(* register the load is pending for, the instruction's result wins: the    *)
(* load is retired into out_regs before the instruction executes, which    *)
(* then overwrites it. After the step the register holds the instruction's *)
(* result in both banks and nothing is pending for it; until then it held  *)
(* what it held when the load ran (with what was in flight at that time    *)
(* landed), so the loaded value is never visible.                          *)
C37_DelaySlotWins ==
    (/\ Done(last) /\ last.h \in {"op_add", "op_addu", "op_sub", "op_subu"}
     /\ Done(prev) /\ prev.h \in PlainLoads
     /\ t(prev.ins) = d(last.ins) /\ d(last.ins) # 0) =>
        LET rd == d(last.ins)
            e  == Exact(last.src[1], last.src[2],
                        IF last.h \in {"op_sub", "op_subu"} THEN 0 - 1 ELSE 1)
        IN  /\ last.old.load[1] = rd
            /\ last.old.regs[rd] = Retired(prev, rd)
            /\ last.src = <<IF s(last.ins) = 0 THEN <<0, 0>> ELSE Retired(prev, s(last.ins)),
                            IF t(last.ins) = 0 THEN <<0, 0>> ELSE Retired(prev, t(last.ins))>>
            /\ regs[rd] = <<e[1] % 65536, e[2]>> /\ out_regs[rd] = regs[rd]
            /\ load[1] = 0

(* LW r3 then ADDU r3, r1, r2 with r1 = r2 = 1: r3 is 2, not the word      *)
(* loaded                                                                  *)
C37_Witness ==
    /\ Done(prev) /\ prev.ins = LW(3, 0, 0)
    /\ Done(last) /\ last.ins = ADDU(3, 1, 2) /\ last.src = <<<<0, 1>>, <<0, 1>>>>
    /\ last.old.load = <<3, <<30292, 12816>>>>
    /\ regs[3] = <<0, 2>>
----------------------------------------------------------------------------
(* C38: a pending load is not lost to an exception. When the instruction   *)
(* after a load raises an exception as it executes, the loaded value is in *)
(* the register when that step ends. When the step after a load raises the *)
(* misaligned-PC fetch fault instead, the load stays pending, and the      *)
(* first instruction run at the handler commits it: the register holds the *)
(* loaded value after that step, unless this instruction wrote the         *)
(* register itself.                                                        *)
C38_LoadKept ==
    /\ (Executed(last) /\ Raised(last) /\ last.old.load[1] # 0) =>
          /\ regs[last.old.load[1]] = last.old.load[2]
          /\ out_regs[last.old.load[1]] = last.old.load[2]
    /\ (last.kind = "fault" /\ last.old.load[1] # 0) =>
          /\ load = last.old.load
          /\ regs = last.old.regs /\ out_regs = last.old.out_regs
    /\ (Executed(last) /\ prev.kind = "fault" /\ prev.old.load[1] # 0) =>
          /\ last.at = exception_handler(last.old.sr)
          /\ last.old.load = prev.old.load
          /\ prev.old.load[1] \notin last.wrote => regs[prev.old.load[1]] = prev.old.load[2]

(* JR r3 to 0xdeadbeef with LW r2 in its delay slot, the fetch fault, and  *)
(* SYSCALL at the handler: r2 holds the word loaded                        *)
C38_Witness ==
    /\ steps = 4 /\ Executed(last) /\ last.ins = SYSCALL /\ last.exc = SysCall
    /\ prev.kind = "fault" /\ prev.old.load = <<2, <<30292, 12816>>>>
    /\ regs[2] = <<30292, 12816>> /\ last.old.regs[2] = <<57005, 48879>>
    /\ load[1] = 0
----------------------------------------------------------------------------
(* Runs that write no memory and do no cache maintenance: NOP and          *)
(* SLL r1, r1, 1 fetched through the enabled cache, the debugger moving    *)
(* the PC between words 0 and 2 of line 8 under the tag 0x80000000, word 2 *)
(* of the same line under the tags 0x80001000 and 0, and the handler at    *)
(* word 0                                                                  *)

MaxPureSteps == 6

ProgPure == { NOP, RType(0, 1, 1, 1, 0) }

PureTargets == { <<32768, 128>>, <<32768, 136>>, <<32768, 4232>>, <<0, 136>> }

InitPure == InitFetch /\ sr = <<0, 0>> /\ cc.icache_enabled /\ ~cc.tag_test_mode

PureStep  == steps < MaxPureSteps /\ ~fatal /\ Exec(ProgPure, {"op_sll"})
PureBreak == steps < MaxPureSteps /\ ~fatal /\ Exec(ProgPure, {"op_break"})
PureForce == steps < MaxPureSteps /\ ForcePcTo(PureTargets)

NextPure == PureStep \/ PureBreak \/ PureForce

SpecPure == InitPure /\ [][NextPure]_vars

(* cache line n has been refilled: with no cache maintenance, the lines    *)
(* that have been written are the ones a fetch has refilled                *)
RefilledOnce(n) == n \in DOMAIN icache

(* C39: with memory never written and no cache maintenance, a fetch        *)
(* through the cache whose line has been refilled at least once delivers   *)
(* the word the Interconnect holds at pc, whatever the fetch addresses     *)
(* were: after partial refills, changes of tag and fetches below the valid *)
(* index. (A word of the Interconnect is known once it has been read from  *)
(* it, and memory does not change.)                                        *)
C39_Transparent ==
    /\ (CachedFetch(last) /\ RefilledOnce(LineIndex(last.at))) =>
          /\ last.at \in DOMAIN mem
          /\ last.ins = mem[last.at]
    /\ Fetching(last) =>
          /\ \A a \in DOMAIN last.old.mem : a \in DOMAIN mem /\ mem[a] = last.old.mem[a]
          /\ \A i \in DOMAIN trace : trace[i].ev \in {"pc_change", "load_instruction"}

(* line 8 filled from word 2 on under the tag 0x80000000, then under the   *)
(* tag 0x80001000 with another word; back at 0x80000088 the fetch delivers *)
(* the first word again                                                    *)
C39_Witness ==
    /\ steps = 6 /\ Done(last) /\ last.at = <<32768, 136>> /\ CachedFetch(last)
    /\ <<32768, 4232>> \in DOMAIN mem /\ mem[<<32768, 4232>>] # last.ins
    /\ tag(LineBefore(last, 8)) = <<32768, 4096>>
    /\ last.ins = mem[<<32768, 136>>] /\ <<32768, 136>> \in DOMAIN last.old.mem
----------------------------------------------------------------------------
(* The cache as reset left it: the debugger moves the PC to addresses      *)
(* below 0x1000 (the first and the last word of the cache, words 2 and 3   *)
(* of line 8), before and after a store of r0 at 0x88 that the isolated    *)
(* cache takes                                                             *)

MaxResetSteps == 3

ResetTargets == { <<0, 0>>, <<0, 136>>, <<0, 140>>, <<0, 4092>> }

ResetForce == steps < MaxResetSteps /\ ForcePcTo(ResetTargets)
ResetStep  == steps < MaxResetSteps /\ Shift(ProgFetch)
ResetStore == steps < MaxResetSteps /\ Store(ProgFetch)
ResetTrap  == steps < MaxResetSteps /\ Trap(ProgFetch)

NextReset == ResetForce \/ ResetStep \/ ResetStore \/ ResetTrap

SpecReset == InitFetch /\ [][NextReset]_vars

(* cache line ln is as reset left it *)
AsReset(ln) ==
    /\ tag(ln) = <<0, 0>> /\ valid_index(ln) = 0
    /\ \A i \in 0 .. 3 : instruction(ln, i) = TrapWord

(* the fetch of the last step was through the cache, at an address with    *)
(* bits [31:12] zero, and hit: it delivered the trap word without reading  *)
(* the Interconnect, and the step raised Break, Cause code 0x9             *)
TrapHit ==
    /\ FetchLoads = << >> /\ mem = last.old.mem
    /\ last.ins = TrapWord
    /\ Executed(last) /\ last.h = "op_break" /\ last.exc = Break
    /\ cause[2] = 36
    /\ pc = exception_handler(sr)

(* C40, as written: at reset every cache line has tag 0, valid index 0 and *)
(* the trap word 0x00bad0d in its four words; until the line is refilled   *)
(* or invalidated, a fetch through the cache at an address with bits       *)
(* [31:12] zero hits without reading the Interconnect and raises Break.    *)
(* (A line has been neither refilled nor invalidated when its tag and      *)
(* valid index are 0 and its word 0 is the trap word: an invalidation and  *)
(* a refill above word 0 raise the valid index, a refill from word 0       *)
(* replaces the word.)                                                     *)
C40_ResetTrapAsWritten ==
    /\ steps = 0 => \A n \in 0 .. 255 : AsReset(LineNow(n))
    /\ (/\ CachedFetch(last) /\ TagOf(last.at) = <<0, 0>>
        /\ LineBefore(last, LineIndex(last.at)).tag_valid = <<0, 0>>
        /\ instruction(LineBefore(last, LineIndex(last.at)), 0) = TrapWord) => TrapHit

(* C40: at reset every cache line has tag 0, valid index 0 and the trap    *)
(* word 0x00bad0d in its four words; as long as the line has been neither  *)
(* refilled nor the target of a store diverted to cache maintenance (which *)
(* invalidates it in tag-test mode and overwrites a word of it otherwise), *)
(* a fetch through the cache at an address with bits [31:12] zero hits     *)
(* without reading the Interconnect and raises Break, Cause code 0x9.      *)
C40_ResetTrap ==
    /\ steps = 0 => \A n \in 0 .. 255 : AsReset(LineNow(n))
    /\ (/\ CachedFetch(last) /\ TagOf(last.at) = <<0, 0>>
        /\ LineIndex(last.at) \notin DOMAIN last.old.icache) =>
          /\ AsReset(LineBefore(last, LineIndex(last.at)))
          /\ TrapHit

(* the cache has taken a store at 0x88 in line 8; the fetch at 0xffc, the  *)
(* last word of line 255, delivers the trap word and raises Break          *)
C40_Witness ==
    /\ steps = 3 /\ Executed(last) /\ last.at = <<0, 4092>> /\ CachedFetch(last)
    /\ 8 \in DOMAIN icache /\ 255 \notin DOMAIN icache
    /\ last.ins = TrapWord /\ last.exc = Break /\ cause = <<0, 36>>
    /\ FetchLoads = << >>
====
